---- MODULE Spec2Model ----
(***************************************************************************)
(* Far::TopologyRefiner (opensubdiv/far/topologyRefiner.cpp): the stack of *)
(* topology levels and refinement steps, its inventory and level view, and *)
(* the feature-adaptive face selection that drives RefineAdaptive.         *)
(*                                                                         *)
(* Vtr::internal::Level, Refinement and SparseSelector are collaborators   *)
(* whose code is outside topologyRefiner.cpp: a level is a record of the   *)
(* queries the refiner makes of it, and Refinement::refine yields one of a *)
(* small set of child levels.                                              *)
(* Indices are 1-based here (face 1 is the C++ face 0); a null pointer is  *)
(* NullPtr.                                                                *)
(***************************************************************************)
EXTENDS Integers, Sequences, FiniteSets, TLC

\* Largest refinementLevel / isolationLevel / secondaryLevel a call is given.
MaxDepth == 2

NullPtr == 0

-----------------------------------------------------------------------------
(* Sdc::SchemeTypeTraits and Sdc::Crease::Rule *)

SchemeTypes == {"SCHEME_BILINEAR", "SCHEME_CATMARK", "SCHEME_LOOP"}

GetRegularFaceSize(schemeType) == IF schemeType = "SCHEME_LOOP" THEN 3 ELSE 4

GetTopologicalSplitType(schemeType) ==
    IF schemeType = "SCHEME_LOOP" THEN "SPLIT_TO_TRIS" ELSE "SPLIT_TO_QUADS"

GetLocalNeighborhoodSize(schemeType) ==
    IF schemeType = "SCHEME_BILINEAR" THEN 0 ELSE 1

RULE_SMOOTH == 1
RULE_DART == 2
RULE_CREASE == 4
RULE_CORNER == 8

\* a & b and a | b on the 4-bit _rule field
RECURSIVE BitAnd(_, _)
BitAnd(a, b) ==
    IF a = 0 \/ b = 0 THEN 0
    ELSE (IF a % 2 = 1 /\ b % 2 = 1 THEN 1 ELSE 0) + 2 * BitAnd(a \div 2, b \div 2)

RECURSIVE BitOr(_, _)
BitOr(a, b) ==
    IF a = 0 THEN b
    ELSE IF b = 0 THEN a
    ELSE (IF a % 2 = 1 \/ b % 2 = 1 THEN 1 ELSE 0) + 2 * BitOr(a \div 2, b \div 2)

-----------------------------------------------------------------------------
(* Vtr::internal::Level::VTag, as far as the refiner reads it *)

VTagOf(rule, flags) ==
    [ nonManifold    |-> "nonManifold" \in flags,
      xordinary      |-> "xordinary" \in flags,
      boundary       |-> "boundary" \in flags,
      corner         |-> "corner" \in flags,
      infSharp       |-> "infSharp" \in flags,
      semiSharp      |-> "semiSharp" \in flags,
      semiSharpEdges |-> "semiSharpEdges" \in flags,
      infSharpEdges  |-> "infSharpEdges" \in flags,
      infIrregular   |-> "infIrregular" \in flags,
      incomplete     |-> "incomplete" \in flags,
      rule           |-> rule ]

VTagOr(a, b) ==
    [ nonManifold    |-> a.nonManifold \/ b.nonManifold,
      xordinary      |-> a.xordinary \/ b.xordinary,
      boundary       |-> a.boundary \/ b.boundary,
      corner         |-> a.corner \/ b.corner,
      infSharp       |-> a.infSharp \/ b.infSharp,
      semiSharp      |-> a.semiSharp \/ b.semiSharp,
      semiSharpEdges |-> a.semiSharpEdges \/ b.semiSharpEdges,
      infSharpEdges  |-> a.infSharpEdges \/ b.infSharpEdges,
      infIrregular   |-> a.infIrregular \/ b.infIrregular,
      incomplete     |-> a.incomplete \/ b.incomplete,
      rule           |-> BitOr(a.rule, b.rule) ]

\* Level::VTag::BitwiseOr(vTags, size): the OR of the first size tags
RECURSIVE BitwiseOr(_, _)
BitwiseOr(vTags, size) ==
    IF size = 1 THEN vTags[1]
    ELSE VTagOr(BitwiseOr(vTags, size - 1), vTags[size])

-----------------------------------------------------------------------------
(* The meshes of the model.  The topology of a level is                     *)
(*   [numVertices, numEdges, maxValence, faces, vtags, vertFaces, fvar]     *)
(* with faces[f] = [verts, hole, singleCrease, fvarMatch], vtags[v] the     *)
(* vertex tag, vertFaces[v] the faces incident on v and fvar[c] = [vtags],  *)
(* the composite vertex tags of a face-varying channel.                     *)

Smooth == VTagOf(RULE_SMOOTH, {})
XordSmooth == VTagOf(RULE_SMOOTH, {"xordinary"})
InfCrease == VTagOf(RULE_CREASE, {"infSharpEdges"})
SemiCrease == VTagOf(RULE_CREASE, {"semiSharpEdges"})
IncompleteSmooth == VTagOf(RULE_SMOOTH, {"incomplete"})
FVarCrease == VTagOf(RULE_CREASE, {"boundary", "infSharpEdges"})

Face(verts, hole, singleCrease, fvarMatch) ==
    [verts |-> verts, hole |-> hole, singleCrease |-> singleCrease, fvarMatch |-> fvarMatch]

\* Two quads sharing the edge 2-5: faces 1-2-5-4 and 2-3-6-5.
TwoQuadsVertFaces == << <<1>>, <<1, 2>>, <<2>>, <<1>>, <<1, 2>>, <<2>> >>

\* What Level's default constructor leaves.
EmptyMesh ==
    [ numVertices |-> 0, numEdges |-> 0, maxValence |-> 0,
      faces |-> << >>, vtags |-> << >>, vertFaces |-> << >>, fvar |-> << >> ]

\* A patch of a regular, smooth quad mesh: no feature anywhere.
BaseRegular ==
    [ numVertices |-> 6, numEdges |-> 7, maxValence |-> 4,
      faces |-> << Face(<<1, 2, 5, 4>>, FALSE, FALSE, <<TRUE>>),
                   Face(<<2, 3, 6, 5>>, FALSE, FALSE, <<TRUE>>) >>,
      vtags |-> [v \in 1..6 |-> Smooth],
      vertFaces |-> TwoQuadsVertFaces,
      fvar |-> << [vtags |-> [v \in 1..6 |-> Smooth]] >> ]

\* Smooth quads 1 and 4, a quad hole 2 and a pentagon 3; the pentagon shares
\* vertices with faces 1 and 2 and none with faces 4 and 5.  Face 5 is a
\* quad hole with a smooth extraordinary vertex.
BaseIrregular ==
    [ numVertices |-> 13, numEdges |-> 17, maxValence |-> 5,
      faces |-> << Face(<<1, 2, 5, 4>>, FALSE, FALSE, <<TRUE>>),
                   Face(<<2, 3, 6, 5>>, TRUE, FALSE, <<TRUE>>),
                   Face(<<4, 5, 6, 7, 8>>, FALSE, FALSE, <<TRUE>>),
                   Face(<<1, 9, 10, 11>>, FALSE, FALSE, <<TRUE>>),
                   Face(<<9, 12, 13, 10>>, TRUE, FALSE, <<TRUE>>) >>,
      vtags |-> [v \in 1..13 |-> IF v = 12 THEN XordSmooth ELSE Smooth],
      vertFaces |-> << <<1, 4>>, <<1, 2>>, <<2>>, <<1, 3>>, <<1, 2, 3>>, <<2, 3>>,
                       <<3>>, <<3>>, <<4, 5>>, <<4, 5>>, <<4>>, <<5>>, <<5>> >>,
      fvar |-> << [vtags |-> [v \in 1..13 |-> Smooth]] >> ]

\* Two quads: face 1 is smooth in the mesh and lies on a face-varying seam,
\* face 2 has a smooth extraordinary vertex.
BaseFVar ==
    [ numVertices |-> 6, numEdges |-> 7, maxValence |-> 5,
      faces |-> << Face(<<1, 2, 5, 4>>, FALSE, FALSE, <<FALSE>>),
                   Face(<<2, 3, 6, 5>>, FALSE, FALSE, <<TRUE>>) >>,
      vtags |-> [v \in 1..6 |-> IF v = 3 THEN XordSmooth ELSE Smooth],
      vertFaces |-> TwoQuadsVertFaces,
      fvar |-> << [vtags |-> [v \in 1..6 |-> IF v \in {1, 2, 4, 5} THEN FVarCrease
                                             ELSE Smooth]] >> ]

\* Child levels, as Refinement::refine leaves them.
ChildSmooth ==
    [ numVertices |-> 6, numEdges |-> 7, maxValence |-> 4,
      faces |-> << Face(<<1, 2, 5, 4>>, FALSE, FALSE, <<TRUE>>),
                   Face(<<2, 3, 6, 5>>, FALSE, FALSE, <<TRUE>>) >>,
      vtags |-> [v \in 1..6 |-> Smooth],
      vertFaces |-> TwoQuadsVertFaces,
      fvar |-> << [vtags |-> [v \in 1..6 |-> Smooth]] >> ]

\* Face 1 has a smooth extraordinary vertex, face 2 a regular interior
\* inf-sharp crease.
ChildFeatures ==
    [ numVertices |-> 6, numEdges |-> 7, maxValence |-> 5,
      faces |-> << Face(<<1, 2, 5, 4>>, FALSE, FALSE, <<TRUE>>),
                   Face(<<2, 3, 6, 5>>, FALSE, FALSE, <<TRUE>>) >>,
      vtags |-> [v \in 1..6 |-> IF v = 1 THEN XordSmooth
                                ELSE IF v \in {3, 6} THEN InfCrease ELSE Smooth],
      vertFaces |-> TwoQuadsVertFaces,
      fvar |-> << [vtags |-> [v \in 1..6 |-> Smooth]] >> ]

\* A level of a sparse refinement: face 1 borders the unrefined region (its
\* vertex 1 has an incomplete neighbourhood) and lies on a face-varying
\* seam; face 2 has a semi-sharp single crease.
ChildIncomplete ==
    [ numVertices |-> 6, numEdges |-> 7, maxValence |-> 4,
      faces |-> << Face(<<1, 2, 5, 4>>, FALSE, FALSE, <<FALSE>>),
                   Face(<<2, 3, 6, 5>>, FALSE, TRUE, <<TRUE>>) >>,
      vtags |-> [v \in 1..6 |-> IF v = 1 THEN IncompleteSmooth
                                ELSE IF v \in {3, 6} THEN SemiCrease ELSE Smooth],
      vertFaces |-> TwoQuadsVertFaces,
      fvar |-> << [vtags |-> [v \in 1..6 |-> IF v \in {1, 2, 4, 5} THEN FVarCrease
                                             ELSE Smooth]] >> ]

Mesh(name) ==
    CASE name = "EmptyMesh" -> EmptyMesh
      [] name = "BaseRegular" -> BaseRegular
      [] name = "BaseIrregular" -> BaseIrregular
      [] name = "BaseFVar" -> BaseFVar
      [] name = "ChildSmooth" -> ChildSmooth
      [] name = "ChildFeatures" -> ChildFeatures
      [] name = "ChildIncomplete" -> ChildIncomplete

-----------------------------------------------------------------------------
(* Vtr::internal::Level.  A level object is [id, depth, mesh, linear]: its  *)
(* identity (the pointer the stacks hold), its depth, the name of its       *)
(* topology and, per face-varying channel, whether the channel is linear.   *)
(* Below are the queries the refiner makes of it.                           *)

Level(id, depth, mesh, linear) ==
    [id |-> id, depth |-> depth, mesh |-> mesh, linear |-> linear]

\* The level a newly constructed refiner holds.
EmptyLevel == Level(1, 0, "EmptyMesh", << >>)

\* The base levels the factory may leave: without a channel, and with one
\* linear or one non-linear channel.
BaseLevels ==
    { Level(1, 0, "BaseRegular", << >>), Level(1, 0, "BaseIrregular", << >>),
      Level(1, 0, "BaseFVar", <<TRUE>>), Level(1, 0, "BaseFVar", <<FALSE>>) }

ChildMeshes == {"ChildSmooth", "ChildFeatures", "ChildIncomplete"}

Topology(level) == Mesh(level.mesh)

getNumVertices(level) == Topology(level).numVertices
getNumEdges(level) == Topology(level).numEdges
getNumFaces(level) == Len(Topology(level).faces)
getMaxValence(level) == Topology(level).maxValence
getDepth(level) == level.depth
getNumFVarChannels(level) == Len(level.linear)
isLinear(level, channel) == level.linear[channel]
getFaceVertices(level, face) == Topology(level).faces[face].verts
getVertexFaces(level, vert) == Topology(level).vertFaces[vert]
isFaceHole(level, face) == Topology(level).faces[face].hole
isSingleCreasePatch(level, face) == Topology(level).faces[face].singleCrease
\* every channel of a level of the model has the topology of the mesh's one
doesFaceFVarTopologyMatch(level, face, channel) == Topology(level).faces[face].fvarMatch[1]
getVertexCompositeFVarVTag(level, vert, channel) == Topology(level).fvar[1].vtags[vert]

RECURSIVE SumFaceSizes(_, _)
SumFaceSizes(faces, n) ==
    IF n = 0 THEN 0 ELSE SumFaceSizes(faces, n - 1) + Len(faces[n].verts)

getNumFaceVerticesTotal(level) ==
    SumFaceSizes(Topology(level).faces, Len(Topology(level).faces))

\* Level::getFaceVTags(face, vTags): the tags of the face's vertices, in order
getFaceVTags(level, face) ==
    LET fVerts == getFaceVertices(level, face)
    IN  [i \in 1..Len(fVerts) |-> Topology(level).vtags[fVerts[i]]]

\* The allocated level child once a refinement of parent has filled it with
\* the topology mesh: one level deeper, with the parent's channels.
FilledChild(mesh, parent, child) ==
    Level(child.id, parent.depth + 1, mesh, parent.linear)

-----
(* TopologyRefiner: the object's fields *)

VARIABLES
    subdivType,         \* _subdivType
    levels,             \* _levels: the level stack, base level first
    refinements,        \* _refinements: refinements[i] takes level i to level i+1
    farLevels,          \* _farLevels: the level view
    isUniform,          \* _isUniform
    maxLevel,           \* _maxLevel
    uniformOptions,     \* _uniformOptions
    adaptiveOptions,    \* _adaptiveOptions
    totalVertices,      \* _totalVertices
    totalEdges,         \* _totalEdges
    totalFaces,         \* _totalFaces
    totalFaceVertices,  \* _totalFaceVertices
    maxValence,         \* _maxValence
    op,                 \* the last member function that returned
    err,                \* the error that call reported through Far::Error, or NoError
    passes,             \* the selectors the last RefineAdaptive filled, one per pass
    freed,              \* the objects the last call deleted, in the order deleted
    probe               \* a function of the file applied on its own: its
                        \* arguments and what it returned (NoProbe in a refiner's life)

vars == << subdivType, levels, refinements, farLevels, isUniform, maxLevel,
           uniformOptions, adaptiveOptions, totalVertices, totalEdges, totalFaces,
           totalFaceVertices, maxValence, op, err, passes, freed, probe >>

NoProbe == [fn |-> "none"]

NoError == "none"
ErrUninitialized == "base level is uninitialized"
ErrAlreadyRefined == "previous refinements already applied"
ErrNotCatmark == "currently only supported for Catmark scheme"

\* The refiner as one record, for the member functions below.
This ==
    [ subdivType |-> subdivType, levels |-> levels, refinements |-> refinements,
      farLevels |-> farLevels, isUniform |-> isUniform, maxLevel |-> maxLevel,
      uniformOptions |-> uniformOptions, adaptiveOptions |-> adaptiveOptions,
      totalVertices |-> totalVertices, totalEdges |-> totalEdges,
      totalFaces |-> totalFaces, totalFaceVertices |-> totalFaceVertices,
      maxValence |-> maxValence, err |-> NoError, passes |-> << >>, freed |-> << >> ]

\* The fields after a member function returned self.
Becomes(self) ==
    /\ subdivType' = self.subdivType
    /\ levels' = self.levels
    /\ refinements' = self.refinements
    /\ farLevels' = self.farLevels
    /\ isUniform' = self.isUniform
    /\ maxLevel' = self.maxLevel
    /\ uniformOptions' = self.uniformOptions
    /\ adaptiveOptions' = self.adaptiveOptions
    /\ totalVertices' = self.totalVertices
    /\ totalEdges' = self.totalEdges
    /\ totalFaces' = self.totalFaces
    /\ totalFaceVertices' = self.totalFaceVertices
    /\ maxValence' = self.maxValence
    /\ err' = self.err
    /\ passes' = self.passes
    /\ freed' = self.freed

\* The fields of a refiner that has just been constructed as self.
StartsAs(self) ==
    /\ subdivType = self.subdivType
    /\ levels = self.levels
    /\ refinements = self.refinements
    /\ farLevels = self.farLevels
    /\ isUniform = self.isUniform
    /\ maxLevel = self.maxLevel
    /\ uniformOptions = self.uniformOptions
    /\ adaptiveOptions = self.adaptiveOptions
    /\ totalVertices = self.totalVertices
    /\ totalEdges = self.totalEdges
    /\ totalFaces = self.totalFaces
    /\ totalFaceVertices = self.totalFaceVertices
    /\ maxValence = self.maxValence
    /\ err = self.err
    /\ passes = self.passes
    /\ freed = self.freed

Max(a, b) == IF a >= b THEN a ELSE b
Min(a, b) == IF a <= b THEN a ELSE b

\* UniformOptions(level) and AdaptiveOptions(level), the options' constructors
UniformOptions(level) ==
    [ refinementLevel |-> level, orderVerticesFromFacesFirst |-> FALSE,
      fullTopologyInLastLevel |-> FALSE ]

AdaptiveOptions(level) ==
    [ isolationLevel |-> level, secondaryLevel |-> 15, useSingleCreasePatch |-> FALSE,
      useInfSharpPatch |-> FALSE, considerFVarChannels |-> FALSE,
      orderVerticesFromFacesFirst |-> FALSE ]

\* initializeInventory without the assignment of _maxValence
initializeInventory_KeepsMaxValence(self) ==
    IF Len(self.levels) > 0
    THEN LET baseLevel == self.levels[1]
         IN  [ self EXCEPT
                 !.totalVertices = getNumVertices(baseLevel),
                 !.totalEdges = getNumEdges(baseLevel),
                 !.totalFaces = getNumFaces(baseLevel),
                 !.totalFaceVertices = getNumFaceVerticesTotal(baseLevel) ]
    ELSE [ self EXCEPT
             !.totalVertices = 0, !.totalEdges = 0, !.totalFaces = 0,
             !.totalFaceVertices = 0, !.maxValence = 0 ]

initializeInventory(self) ==
    IF Len(self.levels) > 0
    THEN LET baseLevel == self.levels[1]
         IN  [ self EXCEPT
                 !.totalVertices = getNumVertices(baseLevel),
                 !.totalEdges = getNumEdges(baseLevel),
                 !.totalFaces = getNumFaces(baseLevel),
                 !.totalFaceVertices = getNumFaceVerticesTotal(baseLevel),
                 !.maxValence = getMaxValence(baseLevel) ]
    ELSE [ self EXCEPT
             !.totalVertices = 0, !.totalEdges = 0, !.totalFaces = 0,
             !.totalFaceVertices = 0, !.maxValence = 0 ]

\* updateInventory adding the face count where the face-vertex count belongs
updateInventory_FacesForFaceVertices(self, newLevel) ==
    [ self EXCEPT
        !.totalVertices = @ + getNumVertices(newLevel),
        !.totalEdges = @ + getNumEdges(newLevel),
        !.totalFaces = @ + getNumFaces(newLevel),
        !.totalFaceVertices = @ + getNumFaces(newLevel),
        !.maxValence = Max(@, getMaxValence(newLevel)) ]

updateInventory(self, newLevel) ==
    [ self EXCEPT
        !.totalVertices = @ + getNumVertices(newLevel),
        !.totalEdges = @ + getNumEdges(newLevel),
        !.totalFaces = @ + getNumFaces(newLevel),
        !.totalFaceVertices = @ + getNumFaceVerticesTotal(newLevel),
        !.maxValence = Max(@, getMaxValence(newLevel)) ]

appendLevel(self, newLevel) ==
    updateInventory([self EXCEPT !.levels = Append(@, newLevel)], newLevel)

\* appendRefinement without the push_back
appendRefinement_Dropped(self, newRefinement) == self

appendRefinement(self, newRefinement) ==
    [self EXCEPT !.refinements = Append(@, newRefinement)]

\* std::vector::resize: the first n entries kept, value-initialised ones added
Resize(seq, n, value) ==
    [i \in 1..n |-> IF i <= Len(seq) THEN seq[i] ELSE value]

FarLevel(refToParent, level, refToChild) ==
    [refToParent |-> refToParent, level |-> level, refToChild |-> refToChild]

\* assembleFarLevels whose loop takes _refinements[i - 1] for _refToChild too
assembleFarLevels_ChildIsParent(self) ==
    LET resized == Resize(self.farLevels, Len(self.levels),
                          FarLevel(NullPtr, NullPtr, NullPtr))
        nRefinements == Len(self.refinements)
    IN  [ self EXCEPT !.farLevels =
            [ i \in 1..Len(resized) |->
                IF nRefinements > 0 /\ i = nRefinements + 1
                THEN FarLevel(self.refinements[nRefinements].id, self.levels[i].id, NullPtr)
                ELSE IF nRefinements > 0 /\ 1 < i /\ i < nRefinements + 1
                THEN FarLevel(self.refinements[i - 1].id, self.levels[i].id,
                              self.refinements[i - 1].id)
                ELSE IF i = 1
                THEN FarLevel(NullPtr, self.levels[1].id,
                              IF nRefinements > 0 THEN self.refinements[1].id ELSE NullPtr)
                ELSE resized[i] ] ]

\* Entry i here is the C++ _farLevels[i-1].
assembleFarLevels(self) ==
    LET resized == Resize(self.farLevels, Len(self.levels),
                          FarLevel(NullPtr, NullPtr, NullPtr))
        nRefinements == Len(self.refinements)
    IN  [ self EXCEPT !.farLevels =
            [ i \in 1..Len(resized) |->
                IF nRefinements > 0 /\ i = nRefinements + 1
                THEN FarLevel(self.refinements[nRefinements].id, self.levels[i].id, NullPtr)
                ELSE IF nRefinements > 0 /\ 1 < i /\ i < nRefinements + 1
                THEN FarLevel(self.refinements[i - 1].id, self.levels[i].id,
                              self.refinements[i].id)
                ELSE IF i = 1
                THEN FarLevel(NullPtr, self.levels[1].id,
                              IF nRefinements > 0 THEN self.refinements[1].id ELSE NullPtr)
                ELSE resized[i] ] ]

\* TopologyRefiner(schemeType, schemeOptions)
Construct(schemeType) ==
    assembleFarLevels(
        [ subdivType |-> schemeType, levels |-> <<EmptyLevel>>, refinements |-> << >>,
          farLevels |-> << >>, isUniform |-> TRUE, maxLevel |-> 0,
          uniformOptions |-> UniformOptions(0), adaptiveOptions |-> AdaptiveOptions(0),
          totalVertices |-> 0, totalEdges |-> 0, totalFaces |-> 0,
          totalFaceVertices |-> 0, maxValence |-> 0,
          err |-> NoError, passes |-> << >>, freed |-> << >> ])

\* The ids of the levels (or refinements) of a stack from index first on.
IdsOf(stack, first) ==
    [i \in 1..(IF Len(stack) >= first THEN Len(stack) - first + 1 ELSE 0) |->
        stack[first + i - 1].id]

Unrefine(self) ==
    LET levelsDone ==
            IF Len(self.levels) > 0
            THEN initializeInventory(
                     [ self EXCEPT
                         !.freed = [i \in 1..Len(IdsOf(self.levels, 2)) |->
                                       <<"level", IdsOf(self.levels, 2)[i]>>],
                         !.levels = SubSeq(@, 1, 1) ])
            ELSE self
        refinementsDone ==
            [ levelsDone EXCEPT
                !.freed = @ \o [i \in 1..Len(self.refinements) |->
                                   <<"refinement", self.refinements[i].id>>],
                !.refinements = << >> ]
    IN  assembleFarLevels(refinementsDone)

\* ~TopologyRefiner: every level is deleted, the base level first, then
\* every refinement.  The members are left as they were; the object is not
\* used again.
Destroy(self) ==
    [ self EXCEPT
        !.freed = [i \in 1..Len(self.levels) |-> <<"level", self.levels[i].id>>]
                  \o [i \in 1..Len(self.refinements) |->
                         <<"refinement", self.refinements[i].id>>] ]

-----------------------------------------------------------------------------
(* Vtr::internal::Refinement and SparseSelector *)

\* new Vtr::internal::Level: the next level of the stack, not yet filled
NewLevel(self) == [EmptyLevel EXCEPT !.id = Len(self.levels) + 1]

\* new QuadRefinement / TriRefinement (parentLevel, childLevel, _subdivOptions)
NewRefinement(self, splitType, parentLevel, childLevel) ==
    [ id |-> Len(self.refinements) + 1,
      parent |-> parentLevel.id,
      child |-> childLevel.id,
      split |-> splitType,
      regularFaceSize |-> IF splitType = "SPLIT_TO_QUADS" THEN 4 ELSE 3,
      options |-> "none" ]

getRegularFaceSize(refinement) == refinement.regularFaceSize

RefineOptions(sparse, minimalTopology, faceVertsFirst) ==
    [sparse |-> sparse, minimalTopology |-> minimalTopology, faceVertsFirst |-> faceVertsFirst]

\* Refinement::refine(refineOptions): the child levels it may leave.  Only a
\* sparse refinement leaves vertices with an incomplete neighbourhood.
refine(parentLevel, childLevel, refineOptions) ==
    { FilledChild(mesh, parentLevel, childLevel) :
        mesh \in { m \in ChildMeshes :
                     refineOptions.sparse
                         \/ \A v \in 1..Len(Mesh(m).vtags) : ~Mesh(m).vtags[v].incomplete } }

Refined(refinement, refineOptions) == [refinement EXCEPT !.options = refineOptions]

-----------------------------------------------------------------------------
(* TopologyRefiner::RefineUniform *)

\* The two flags only reach Refinement::refine.
UniformOptionsSet ==
    [ refinementLevel : 0..MaxDepth, orderVerticesFromFacesFirst : {FALSE},
      fullTopologyInLastLevel : {FALSE} ]

\* The for loop of RefineUniform from pass i on: the refiners it may end with.
RECURSIVE RefineUniformLoop(_, _, _)
RefineUniformLoop(self, options, i) ==
    IF i > options.refinementLevel THEN {self}
    ELSE LET splitType == GetTopologicalSplitType(self.subdivType)
             refineOptions ==
                 RefineOptions(FALSE,
                               IF options.fullTopologyInLastLevel THEN FALSE
                               ELSE i = options.refinementLevel,
                               options.orderVerticesFromFacesFirst)
             parentLevel == self.levels[i]
             childLevel == NewLevel(self)
             refinement == NewRefinement(self, splitType, parentLevel, childLevel)
         IN  UNION { RefineUniformLoop(
                         appendRefinement(appendLevel(self, filled),
                                          Refined(refinement, refineOptions)),
                         options, i + 1)
                     : filled \in refine(parentLevel, childLevel, refineOptions) }

\* RefineUniform without its check of the base level
UniformPreconditionError_NoBaseCheck(self) ==
    IF Len(self.refinements) > 0 THEN ErrAlreadyRefined ELSE NoError

\* The checks RefineUniform makes before it changes anything: the error it
\* reports and returns on, or NoError.
UniformPreconditionError(self) ==
    IF getNumVertices(self.levels[1]) = 0 THEN ErrUninitialized
    ELSE IF Len(self.refinements) > 0 THEN ErrAlreadyRefined
    ELSE NoError

\* RefineUniform without the assignment of _isUniform
BeginUniform_KeepsIsUniform(self, options) ==
    [ self EXCEPT !.uniformOptions = options,
                  !.maxLevel = options.refinementLevel ]

\* The members RefineUniform sets before its loop.
BeginUniform(self, options) ==
    [ self EXCEPT !.uniformOptions = options,
                  !.isUniform = TRUE,
                  !.maxLevel = options.refinementLevel ]

\* The refiners a call RefineUniform(options) may leave.
RefineUniform(self, options) ==
    IF UniformPreconditionError(self) # NoError
    THEN {[self EXCEPT !.err = UniformPreconditionError(self)]}
    ELSE { assembleFarLevels(done) :
             done \in RefineUniformLoop(BeginUniform(self, options), options, 1) }

-----------------------------------------------------------------------------
(* internal::FeatureMask: eleven one-bit fields laid over one unsigned int. *)
(* Clear() and IsEmpty() write and read the whole word.  The word's other   *)
(* bits are not set by the constructor from options, but they decide        *)
(* IsEmpty() only when all eleven fields are clear, and a mask gets there   *)
(* only through Clear(), which zeroes them too: a mask is its fields.       *)

FeatureFlags ==
    { "selectXOrdinaryInterior", "selectXOrdinaryBoundary",
      "selectSemiSharpSingle", "selectSemiSharpNonSingle",
      "selectInfSharpRegularCrease", "selectInfSharpRegularCorner",
      "selectInfSharpIrregularDart", "selectInfSharpIrregularCrease",
      "selectInfSharpIrregularCorner", "selectNonManifold", "selectFVarFeatures" }

Clear(mask) ==
    [ selectXOrdinaryInterior |-> FALSE, selectXOrdinaryBoundary |-> FALSE,
      selectSemiSharpSingle |-> FALSE, selectSemiSharpNonSingle |-> FALSE,
      selectInfSharpRegularCrease |-> FALSE, selectInfSharpRegularCorner |-> FALSE,
      selectInfSharpIrregularDart |-> FALSE, selectInfSharpIrregularCrease |-> FALSE,
      selectInfSharpIrregularCorner |-> FALSE, selectNonManifold |-> FALSE,
      selectFVarFeatures |-> FALSE ]

IsEmpty(mask) == \A flag \in FeatureFlags : ~mask[flag]

\* InitializeFeatures taking the single-crease option without the test of
\* the scheme's regular face size
InitializeFeatures_AnyFaceSize(mask, options, subdType) ==
    LET useSingleCreasePatch == options.useSingleCreasePatch
    IN  [ mask EXCEPT
            !.selectXOrdinaryInterior = TRUE,
            !.selectXOrdinaryBoundary = TRUE,
            !.selectSemiSharpSingle = ~useSingleCreasePatch,
            !.selectSemiSharpNonSingle = TRUE,
            !.selectInfSharpRegularCrease = ~(options.useInfSharpPatch \/ useSingleCreasePatch),
            !.selectInfSharpRegularCorner = ~options.useInfSharpPatch,
            !.selectInfSharpIrregularDart = TRUE,
            !.selectInfSharpIrregularCrease = TRUE,
            !.selectInfSharpIrregularCorner = TRUE,
            !.selectNonManifold = TRUE,
            !.selectFVarFeatures = options.considerFVarChannels ]

InitializeFeatures(mask, options, subdType) ==
    LET useSingleCreasePatch ==
            options.useSingleCreasePatch /\ (GetRegularFaceSize(subdType) = 4)
    IN  [ mask EXCEPT
            !.selectXOrdinaryInterior = TRUE,
            !.selectXOrdinaryBoundary = TRUE,
            !.selectSemiSharpSingle = ~useSingleCreasePatch,
            !.selectSemiSharpNonSingle = TRUE,
            !.selectInfSharpRegularCrease = ~(options.useInfSharpPatch \/ useSingleCreasePatch),
            !.selectInfSharpRegularCorner = ~options.useInfSharpPatch,
            !.selectInfSharpIrregularDart = TRUE,
            !.selectInfSharpIrregularCrease = TRUE,
            !.selectInfSharpIrregularCorner = TRUE,
            !.selectNonManifold = TRUE,
            !.selectFVarFeatures = options.considerFVarChannels ]

\* ReduceFeatures inverting the two extra-ordinary flags instead of clearing them
ReduceFeatures_InvertsXOrdinary(mask, options) ==
    LET xord == [ mask EXCEPT !.selectXOrdinaryInterior = ~@,
                              !.selectXOrdinaryBoundary = ~@ ]
    IN  IF options.useInfSharpPatch
        THEN [ xord EXCEPT !.selectInfSharpRegularCrease = FALSE,
                           !.selectInfSharpRegularCorner = FALSE,
                           !.selectInfSharpIrregularDart = FALSE,
                           !.selectInfSharpIrregularCrease = FALSE ]
        ELSE xord

\* ReduceFeatures clearing all five inf-sharp flags, the irregular corner too
ReduceFeatures_ClearsIrregularCorner(mask, options) ==
    LET xord == [ mask EXCEPT !.selectXOrdinaryInterior = FALSE,
                              !.selectXOrdinaryBoundary = FALSE ]
    IN  IF options.useInfSharpPatch
        THEN [ xord EXCEPT !.selectInfSharpRegularCrease = FALSE,
                           !.selectInfSharpRegularCorner = FALSE,
                           !.selectInfSharpIrregularDart = FALSE,
                           !.selectInfSharpIrregularCrease = FALSE,
                           !.selectInfSharpIrregularCorner = FALSE ]
        ELSE xord

ReduceFeatures(mask, options) ==
    LET xord == [ mask EXCEPT !.selectXOrdinaryInterior = FALSE,
                              !.selectXOrdinaryBoundary = FALSE ]
    IN  IF options.useInfSharpPatch
        THEN [ xord EXCEPT !.selectInfSharpRegularCrease = FALSE,
                           !.selectInfSharpRegularCorner = FALSE,
                           !.selectInfSharpIrregularDart = FALSE,
                           !.selectInfSharpIrregularCrease = FALSE ]
        ELSE xord

\* FeatureMask(options, sType): InitializeFeatures assigns every field.
FeatureMask(options, sType) == InitializeFeatures(Clear(<< >>), options, sType)

-----------------------------------------------------------------------------
(* Face classification *)

\* doesInfSharpFaceHaveFeatures testing the crease rule of an irregular tag
\* before its corner rule
doesInfSharpFaceHaveFeatures_CreaseFirst(compVTag, featureMask) ==
    IF compVTag.infIrregular
    THEN IF BitAnd(compVTag.rule, RULE_CREASE) # 0
         THEN IF compVTag.boundary THEN featureMask.selectXOrdinaryBoundary
                                   ELSE featureMask.selectInfSharpIrregularCrease
         ELSE IF BitAnd(compVTag.rule, RULE_CORNER) # 0
         THEN featureMask.selectInfSharpIrregularCorner
         ELSE IF BitAnd(compVTag.rule, RULE_DART) # 0
         THEN featureMask.selectInfSharpIrregularDart
         ELSE FALSE
    ELSE IF compVTag.boundary
    THEN IF BitAnd(compVTag.rule, RULE_CORNER) # 0
         THEN IF compVTag.corner THEN FALSE ELSE featureMask.selectInfSharpRegularCorner
         ELSE FALSE
    ELSE IF BitAnd(compVTag.rule, RULE_CORNER) # 0
         THEN featureMask.selectInfSharpRegularCorner
         ELSE featureMask.selectInfSharpRegularCrease

doesInfSharpFaceHaveFeatures(compVTag, featureMask) ==
    IF compVTag.infIrregular
    THEN IF BitAnd(compVTag.rule, RULE_CORNER) # 0
         THEN featureMask.selectInfSharpIrregularCorner
         ELSE IF BitAnd(compVTag.rule, RULE_CREASE) # 0
         THEN IF compVTag.boundary THEN featureMask.selectXOrdinaryBoundary
                                   ELSE featureMask.selectInfSharpIrregularCrease
         ELSE IF BitAnd(compVTag.rule, RULE_DART) # 0
         THEN featureMask.selectInfSharpIrregularDart
         ELSE FALSE
    ELSE IF compVTag.boundary
    THEN IF BitAnd(compVTag.rule, RULE_CORNER) # 0
         THEN IF compVTag.corner THEN FALSE ELSE featureMask.selectInfSharpRegularCorner
         ELSE FALSE
    ELSE IF BitAnd(compVTag.rule, RULE_CORNER) # 0
         THEN featureMask.selectInfSharpRegularCorner
         ELSE featureMask.selectInfSharpRegularCrease

\* doesFaceHaveFeatures looking for a smooth extra-ordinary corner at every
\* depth
FaceTagsHaveFeatures_AnyDepth(vTags, depth, singleCrease, featureMask) ==
    LET compFaceVTag == BitwiseOr(vTags, Len(vTags))
    IN  IF IsEmpty(featureMask) THEN FALSE
        ELSE IF compFaceVTag.incomplete THEN FALSE
        ELSE IF compFaceVTag.nonManifold /\ featureMask.selectNonManifold THEN TRUE
        ELSE IF /\ compFaceVTag.xordinary /\ featureMask.selectXOrdinaryInterior
                /\ \/ compFaceVTag.rule = RULE_SMOOTH
                   \/ \E i \in 1..Len(vTags) :
                          vTags[i].xordinary /\ vTags[i].rule = RULE_SMOOTH
        THEN TRUE
        ELSE IF compFaceVTag.rule = RULE_SMOOTH THEN FALSE
        ELSE IF BitAnd(compFaceVTag.rule, RULE_SMOOTH) = 0 THEN TRUE
        ELSE IF compFaceVTag.semiSharp \/ compFaceVTag.semiSharpEdges
        THEN IF featureMask.selectSemiSharpSingle /\ featureMask.selectSemiSharpNonSingle
             THEN TRUE
             ELSE IF singleCrease THEN featureMask.selectSemiSharpSingle
             ELSE featureMask.selectSemiSharpNonSingle
        ELSE IF compFaceVTag.infSharp \/ compFaceVTag.infSharpEdges
        THEN doesInfSharpFaceHaveFeatures(compFaceVTag, featureMask)
        ELSE FALSE

\* doesFaceHaveFeatures rejecting a non-manifold face when the nonManifold
\* flag is set
FaceTagsHaveFeatures_NonManifoldRejected(vTags, depth, singleCrease, featureMask) ==
    LET compFaceVTag == BitwiseOr(vTags, Len(vTags))
    IN  IF IsEmpty(featureMask) THEN FALSE
        ELSE IF compFaceVTag.incomplete THEN FALSE
        ELSE IF compFaceVTag.nonManifold /\ featureMask.selectNonManifold THEN FALSE
        ELSE IF /\ compFaceVTag.xordinary /\ featureMask.selectXOrdinaryInterior
                /\ \/ compFaceVTag.rule = RULE_SMOOTH
                   \/ /\ depth < 2
                      /\ \E i \in 1..Len(vTags) :
                             vTags[i].xordinary /\ vTags[i].rule = RULE_SMOOTH
        THEN TRUE
        ELSE IF compFaceVTag.rule = RULE_SMOOTH THEN FALSE
        ELSE IF BitAnd(compFaceVTag.rule, RULE_SMOOTH) = 0 THEN TRUE
        ELSE IF compFaceVTag.semiSharp \/ compFaceVTag.semiSharpEdges
        THEN IF featureMask.selectSemiSharpSingle /\ featureMask.selectSemiSharpNonSingle
             THEN TRUE
             ELSE IF singleCrease THEN featureMask.selectSemiSharpSingle
             ELSE featureMask.selectSemiSharpNonSingle
        ELSE IF compFaceVTag.infSharp \/ compFaceVTag.infSharpEdges
        THEN doesInfSharpFaceHaveFeatures(compFaceVTag, featureMask)
        ELSE FALSE

\* The steps of doesFaceHaveFeatures on the corner tags vTags of a face:
\* depth is level.getDepth(), singleCrease is level.isSingleCreasePatch(face).
FaceTagsHaveFeatures(vTags, depth, singleCrease, featureMask) ==
    LET compFaceVTag == BitwiseOr(vTags, Len(vTags))
    IN  IF IsEmpty(featureMask) THEN FALSE
        ELSE IF compFaceVTag.incomplete THEN FALSE
        ELSE IF compFaceVTag.nonManifold /\ featureMask.selectNonManifold THEN TRUE
        ELSE IF /\ compFaceVTag.xordinary /\ featureMask.selectXOrdinaryInterior
                /\ \/ compFaceVTag.rule = RULE_SMOOTH
                   \/ /\ depth < 2
                      /\ \E i \in 1..Len(vTags) :
                             vTags[i].xordinary /\ vTags[i].rule = RULE_SMOOTH
        THEN TRUE
        ELSE IF compFaceVTag.rule = RULE_SMOOTH THEN FALSE
        ELSE IF BitAnd(compFaceVTag.rule, RULE_SMOOTH) = 0 THEN TRUE
        ELSE IF compFaceVTag.semiSharp \/ compFaceVTag.semiSharpEdges
        THEN IF featureMask.selectSemiSharpSingle /\ featureMask.selectSemiSharpNonSingle
             THEN TRUE
             ELSE IF singleCrease THEN featureMask.selectSemiSharpSingle
             ELSE featureMask.selectSemiSharpNonSingle
        ELSE IF compFaceVTag.infSharp \/ compFaceVTag.infSharpEdges
        THEN doesInfSharpFaceHaveFeatures(compFaceVTag, featureMask)
        ELSE FALSE

doesFaceHaveFeatures(level, face, featureMask) ==
    FaceTagsHaveFeatures(getFaceVTags(level, face), getDepth(level),
                         isSingleCreasePatch(level, face), featureMask)

\* doesFaceHaveDistinctFaceVaryingFeatures selecting every face whose
\* aggregate rule is not exactly smooth
FVarTagsHaveFeatures_NotExactlySmooth(vTags, featureMask) ==
    LET compVTag == BitwiseOr(vTags, Len(vTags))
    IN  IF compVTag.nonManifold /\ featureMask.selectNonManifold THEN TRUE
        ELSE IF compVTag.xordinary /\ featureMask.selectXOrdinaryInterior THEN TRUE
        ELSE IF compVTag.rule # RULE_SMOOTH THEN TRUE
        ELSE doesInfSharpFaceHaveFeatures(compVTag, featureMask)

\* The steps of doesFaceHaveDistinctFaceVaryingFeatures on the composite
\* face-varying tags vTags of the face's vertices.
FVarTagsHaveFeatures(vTags, featureMask) ==
    LET compVTag == BitwiseOr(vTags, Len(vTags))
    IN  IF compVTag.nonManifold /\ featureMask.selectNonManifold THEN TRUE
        ELSE IF compVTag.xordinary /\ featureMask.selectXOrdinaryInterior THEN TRUE
        ELSE IF BitAnd(compVTag.rule, RULE_SMOOTH) = 0 THEN TRUE
        ELSE doesInfSharpFaceHaveFeatures(compVTag, featureMask)

doesFaceHaveDistinctFaceVaryingFeatures(level, face, featureMask, fvarChannel) ==
    LET fVerts == getFaceVertices(level, face)
    IN  FVarTagsHaveFeatures(
            [i \in 1..Len(fVerts) |-> getVertexCompositeFVarVTag(level, fVerts[i], fvarChannel)],
            featureMask)

-----------------------------------------------------------------------------
(* TopologyRefiner::selectFeatureAdaptiveComponents *)

\* Vtr::internal::SparseSelector(refinement): calls are the faces handed to
\* selectFace, in the order of the calls; fvarTests are the <<face, channel>>
\* pairs doesFaceHaveDistinctFaceVaryingFeatures was called with while the
\* selector was filled.
SparseSelector(refinement) ==
    [refinement |-> refinement, calls |-> << >>, fvarTests |-> << >>]

selectFace(selector, face) == [selector EXCEPT !.calls = Append(@, face)]

isSelectionEmpty(selector) == selector.calls = << >>

\* selector.getRefinement().parent()
ParentLevel(self, refinement) ==
    self.levels[CHOOSE i \in 1..Len(self.levels) : self.levels[i].id = refinement.parent]

\* for (j ...) selector.selectFace(fVertFaces[j]), from index j on
RECURSIVE SelectFacesOf(_, _, _)
SelectFacesOf(selector, fVertFaces, j) ==
    IF j > Len(fVertFaces) THEN selector
    ELSE SelectFacesOf(selectFace(selector, fVertFaces[j]), fVertFaces, j + 1)

\* The loop over the vertices of an irregular face leaving after one vertex
SelectOneRing_FirstVertexOnly(selector, level, faceVerts, i) ==
    IF i > Len(faceVerts) THEN selector
    ELSE SelectFacesOf(selector, getVertexFaces(level, faceVerts[i]), 1)

\* for (i ...) over the vertices of an irregular face, from index i on
RECURSIVE SelectOneRing(_, _, _, _)
SelectOneRing(selector, level, faceVerts, i) ==
    IF i > Len(faceVerts) THEN selector
    ELSE SelectOneRing(SelectFacesOf(selector, getVertexFaces(level, faceVerts[i]), 1),
                       level, faceVerts, i + 1)

\* The channel loop: whether some channel from channel on selects the face.
RECURSIVE FVarChannelsSelect(_, _, _, _, _)
FVarChannelsSelect(level, face, featureMask, numFVarChannels, channel) ==
    IF channel > numFVarChannels THEN FALSE
    ELSE IF /\ ~doesFaceFVarTopologyMatch(level, face, channel)
            /\ doesFaceHaveDistinctFaceVaryingFeatures(level, face, featureMask, channel)
    THEN TRUE
    ELSE FVarChannelsSelect(level, face, featureMask, numFVarChannels, channel + 1)

\* The channel loop: the channels from channel on in which the face is
\* classified, in order; the loop ends with the first that selects the face.
RECURSIVE FVarChannelsTested(_, _, _, _, _)
FVarChannelsTested(level, face, featureMask, numFVarChannels, channel) ==
    IF channel > numFVarChannels THEN << >>
    ELSE IF doesFaceFVarTopologyMatch(level, face, channel)
    THEN FVarChannelsTested(level, face, featureMask, numFVarChannels, channel + 1)
    ELSE IF doesFaceHaveDistinctFaceVaryingFeatures(level, face, featureMask, channel)
    THEN << <<face, channel>> >>
    ELSE << <<face, channel>> >>
             \o FVarChannelsTested(level, face, featureMask, numFVarChannels, channel + 1)

\* One iteration of the face loop without the test of isFaceHole
SelectAtFace_NoHoleSkip(selector, level, face, featureMask, selectIrregularFaces, numFVarChannels, regularFaceSize, neighborhood) ==
    IF selectIrregularFaces /\ Len(getFaceVertices(level, face)) # regularFaceSize
    THEN IF neighborhood = 0
         THEN selectFace(selector, face)
         ELSE SelectOneRing(selector, level, getFaceVertices(level, face), 1)
    ELSE LET hasFeatures == doesFaceHaveFeatures(level, face, featureMask)
             tested ==
                 IF ~hasFeatures /\ featureMask.selectFVarFeatures
                 THEN [selector EXCEPT !.fvarTests =
                          @ \o FVarChannelsTested(level, face, featureMask,
                                                  numFVarChannels, 1)]
                 ELSE selector
         IN  IF \/ hasFeatures
                \/ /\ featureMask.selectFVarFeatures
                   /\ FVarChannelsSelect(level, face, featureMask, numFVarChannels, 1)
             THEN selectFace(tested, face)
             ELSE tested

\* One iteration of the face loop.
SelectAtFace(selector, level, face, featureMask, selectIrregularFaces, numFVarChannels, regularFaceSize, neighborhood) ==
    IF isFaceHole(level, face) THEN selector
    ELSE IF selectIrregularFaces /\ Len(getFaceVertices(level, face)) # regularFaceSize
    THEN IF neighborhood = 0
         THEN selectFace(selector, face)
         ELSE SelectOneRing(selector, level, getFaceVertices(level, face), 1)
    ELSE LET hasFeatures == doesFaceHaveFeatures(level, face, featureMask)
             tested ==
                 IF ~hasFeatures /\ featureMask.selectFVarFeatures
                 THEN [selector EXCEPT !.fvarTests =
                          @ \o FVarChannelsTested(level, face, featureMask,
                                                  numFVarChannels, 1)]
                 ELSE selector
         IN  IF \/ hasFeatures
                \/ /\ featureMask.selectFVarFeatures
                   /\ FVarChannelsSelect(level, face, featureMask, numFVarChannels, 1)
             THEN selectFace(tested, face)
             ELSE tested

\* The face loop from face on.
RECURSIVE SelectFromFace(_, _, _, _, _, _, _, _)
SelectFromFace(selector, level, face, featureMask, selectIrregularFaces, numFVarChannels, regularFaceSize, neighborhood) ==
    IF face > getNumFaces(level) THEN selector
    ELSE SelectFromFace(
             SelectAtFace(selector, level, face, featureMask, selectIrregularFaces,
                          numFVarChannels, regularFaceSize, neighborhood),
             level, face + 1, featureMask, selectIrregularFaces,
             numFVarChannels, regularFaceSize, neighborhood)

selectFeatureAdaptiveComponents(self, selector, featureMask) ==
    LET level == ParentLevel(self, selector.refinement)
        levelDepth == getDepth(level)
        selectIrregularFaces == (levelDepth = 0)
    IN  IF IsEmpty(featureMask) /\ ~selectIrregularFaces THEN selector
        ELSE SelectFromFace(
                 selector, level, 1, featureMask, selectIrregularFaces,
                 IF featureMask.selectFVarFeatures THEN getNumFVarChannels(level) ELSE 0,
                 getRegularFaceSize(selector.refinement),
                 GetLocalNeighborhoodSize(self.subdivType))

-----------------------------------------------------------------------------
(* TopologyRefiner::RefineAdaptive *)

\* The option flags are drawn so that every pair of values of every two
\* flags occurs (an even number of them is set).
AdaptiveOptionsSet ==
    { options \in [ isolationLevel : 0..MaxDepth, secondaryLevel : 0..MaxDepth,
                    useSingleCreasePatch : BOOLEAN, useInfSharpPatch : BOOLEAN,
                    considerFVarChannels : BOOLEAN,
                    orderVerticesFromFacesFirst : {FALSE} ] :
        (options.useSingleCreasePatch = options.useInfSharpPatch)
            = ~options.considerFVarChannels }

\* The record of one pass: the depth it would create, the mask it classified
\* with, the parent level it inspected, the selectFace calls it made and the
\* face-varying classifications it evaluated.
Pass(i, featureMask, level, selector) ==
    [ depth |-> i, mask |-> featureMask, parent |-> level.id,
      calls |-> selector.calls, fvarTests |-> selector.fvarTests ]

\* The loop of RefineAdaptive without the test of isSelectionEmpty: every
\* pass refines and appends.
RECURSIVE RefineAdaptiveLoop_KeepsEmptyStep(_, _, _, _, _, _)
RefineAdaptiveLoop_KeepsEmptyStep(self, options, moreFeaturesMask, lessFeaturesMask, shallowLevel, i) ==
    IF i > options.isolationLevel THEN {self}
    ELSE LET splitType == GetTopologicalSplitType(self.subdivType)
             refineOptions == RefineOptions(TRUE, FALSE, options.orderVerticesFromFacesFirst)
             parentLevel == self.levels[i]
             childLevel == NewLevel(self)
             refinement == NewRefinement(self, splitType, parentLevel, childLevel)
             featureMask == IF i <= shallowLevel THEN moreFeaturesMask ELSE lessFeaturesMask
             selector == selectFeatureAdaptiveComponents(
                             self, SparseSelector(refinement), featureMask)
             passed == [self EXCEPT
                          !.passes = Append(@, Pass(i, featureMask, parentLevel, selector))]
         IN  UNION { RefineAdaptiveLoop_KeepsEmptyStep(
                         appendRefinement(appendLevel(passed, filled),
                                          Refined(refinement, refineOptions)),
                         options, moreFeaturesMask, lessFeaturesMask, shallowLevel, i + 1)
                     : filled \in refine(parentLevel, childLevel, refineOptions) }

\* The for loop of RefineAdaptive from pass i on: the refiners it may end with.
RECURSIVE RefineAdaptiveLoop(_, _, _, _, _, _)
RefineAdaptiveLoop(self, options, moreFeaturesMask, lessFeaturesMask, shallowLevel, i) ==
    IF i > options.isolationLevel THEN {self}
    ELSE LET splitType == GetTopologicalSplitType(self.subdivType)
             refineOptions == RefineOptions(TRUE, FALSE, options.orderVerticesFromFacesFirst)
             parentLevel == self.levels[i]
             childLevel == NewLevel(self)
             refinement == NewRefinement(self, splitType, parentLevel, childLevel)
             featureMask == IF i <= shallowLevel THEN moreFeaturesMask ELSE lessFeaturesMask
             selector == selectFeatureAdaptiveComponents(
                             self, SparseSelector(refinement), featureMask)
             passed == [self EXCEPT
                          !.passes = Append(@, Pass(i, featureMask, parentLevel, selector))]
         IN  IF isSelectionEmpty(selector)
             THEN {[passed EXCEPT !.freed = @ \o << <<"refinement", refinement.id>>,
                                                    <<"level", childLevel.id>> >>]}
             ELSE UNION { RefineAdaptiveLoop(
                              appendRefinement(appendLevel(passed, filled),
                                               Refined(refinement, refineOptions)),
                              options, moreFeaturesMask, lessFeaturesMask, shallowLevel, i + 1)
                          : filled \in refine(parentLevel, childLevel, refineOptions) }

\* The masks of a run without the call of ReduceFeatures
AdaptiveMasks_NeverReduced(self, options) ==
    LET moreFeaturesMask == FeatureMask(options, self.subdivType)
        nonLinearChannelsPresent ==
            \E channel \in 1..getNumFVarChannels(self.levels[1]) :
                ~isLinear(self.levels[1], channel)
        adjusted ==
            IF GetLocalNeighborhoodSize(self.subdivType) = 0
            THEN Clear(moreFeaturesMask)
            ELSE IF moreFeaturesMask.selectFVarFeatures /\ ~nonLinearChannelsPresent
            THEN [moreFeaturesMask EXCEPT !.selectFVarFeatures = FALSE]
            ELSE moreFeaturesMask
    IN  [more |-> adjusted, less |-> adjusted]

\* The masks of a run without the test for a non-linear channel
AdaptiveMasks_KeepsFVarFeatures(self, options) ==
    LET shallowLevel == Min(options.secondaryLevel, options.isolationLevel)
        potentialMaxLevel == options.isolationLevel
        moreFeaturesMask == FeatureMask(options, self.subdivType)
        lessFeaturesMask == IF shallowLevel < potentialMaxLevel
                            THEN ReduceFeatures(moreFeaturesMask, options)
                            ELSE moreFeaturesMask
    IN  IF GetLocalNeighborhoodSize(self.subdivType) = 0
        THEN [more |-> Clear(moreFeaturesMask), less |-> Clear(lessFeaturesMask)]
        ELSE [more |-> moreFeaturesMask, less |-> lessFeaturesMask]

\* The two masks of a run, after the adjustments for the scheme and the
\* face-varying channels of the base level.
AdaptiveMasks(self, options) ==
    LET shallowLevel == Min(options.secondaryLevel, options.isolationLevel)
        potentialMaxLevel == options.isolationLevel
        moreFeaturesMask == FeatureMask(options, self.subdivType)
        lessFeaturesMask == IF shallowLevel < potentialMaxLevel
                            THEN ReduceFeatures(moreFeaturesMask, options)
                            ELSE moreFeaturesMask
        nonLinearChannelsPresent ==
            \E channel \in 1..getNumFVarChannels(self.levels[1]) :
                ~isLinear(self.levels[1], channel)
    IN  IF GetLocalNeighborhoodSize(self.subdivType) = 0
        THEN [more |-> Clear(moreFeaturesMask), less |-> Clear(lessFeaturesMask)]
        ELSE IF moreFeaturesMask.selectFVarFeatures /\ ~nonLinearChannelsPresent
        THEN [ more |-> [moreFeaturesMask EXCEPT !.selectFVarFeatures = FALSE],
               less |-> [lessFeaturesMask EXCEPT !.selectFVarFeatures = FALSE] ]
        ELSE [more |-> moreFeaturesMask, less |-> lessFeaturesMask]

\* RefineAdaptive without its check for refinements already applied
AdaptivePreconditionError_NoRefinedCheck(self) ==
    IF getNumVertices(self.levels[1]) = 0 THEN ErrUninitialized
    ELSE IF self.subdivType # "SCHEME_CATMARK" THEN ErrNotCatmark
    ELSE NoError

\* RefineAdaptive without its check of the scheme
AdaptivePreconditionError_AnyScheme(self) ==
    IF getNumVertices(self.levels[1]) = 0 THEN ErrUninitialized
    ELSE IF Len(self.refinements) > 0 THEN ErrAlreadyRefined
    ELSE NoError

\* The checks RefineAdaptive makes before it changes anything: the error it
\* reports and returns on, or NoError.
AdaptivePreconditionError(self) ==
    IF getNumVertices(self.levels[1]) = 0 THEN ErrUninitialized
    ELSE IF Len(self.refinements) > 0 THEN ErrAlreadyRefined
    ELSE IF self.subdivType # "SCHEME_CATMARK" THEN ErrNotCatmark
    ELSE NoError

\* RefineAdaptive without its assignment of _isUniform
BeginAdaptive_KeepsIsUniform(self, options) ==
    [self EXCEPT !.adaptiveOptions = options]

\* The members RefineAdaptive sets before its loop.
BeginAdaptive(self, options) ==
    [self EXCEPT !.isUniform = FALSE, !.adaptiveOptions = options]

\* RefineAdaptive setting _maxLevel to potentialMaxLevel
FinishAdaptive_PotentialMaxLevel(self) ==
    assembleFarLevels([self EXCEPT !.maxLevel = self.adaptiveOptions.isolationLevel])

\* What RefineAdaptive does after its loop.
FinishAdaptive(self) ==
    assembleFarLevels([self EXCEPT !.maxLevel = Len(self.refinements)])

\* The refiners a call RefineAdaptive(options) may leave.
RefineAdaptive(self, options) ==
    IF AdaptivePreconditionError(self) # NoError
    THEN {[self EXCEPT !.err = AdaptivePreconditionError(self)]}
    ELSE LET started == BeginAdaptive(self, options)
             masks == AdaptiveMasks(started, options)
         IN  { FinishAdaptive(done) :
                 done \in RefineAdaptiveLoop(
                              started, options, masks.more, masks.less,
                              Min(options.secondaryLevel, options.isolationLevel), 1) }

-----------------------------------------------------------------------------
(* The refiner's life: construction, the factory's population of the base   *)
(* level, and the public calls in any order.                                 *)

Init ==
    /\ \E schemeType \in SchemeTypes : StartsAs(Construct(schemeType))
    /\ op = "Construct"
    /\ probe = NoProbe

\* The refiner has not been destroyed.
Exists == op # "Destroy"

\* TopologyRefinerFactory: fills the base level and initializes the inventory.
PopulateBaseLevel ==
    /\ Exists
    /\ getNumVertices(levels[1]) = 0
    /\ Len(refinements) = 0
    /\ \E baseLevel \in BaseLevels :
           Becomes(initializeInventory([This EXCEPT !.levels = <<baseLevel>>]))
    /\ op' = "Populate"
    /\ UNCHANGED probe

CallRefineUniform ==
    /\ Exists
    /\ \E done \in UNION { RefineUniform(This, options) : options \in UniformOptionsSet } :
           Becomes(done)
    /\ op' = "RefineUniform"
    /\ UNCHANGED probe

CallRefineAdaptive ==
    /\ Exists
    /\ \E done \in UNION { RefineAdaptive(This, options) : options \in AdaptiveOptionsSet } :
           Becomes(done)
    /\ op' = "RefineAdaptive"
    /\ UNCHANGED probe

CallUnrefine ==
    /\ Exists
    /\ Becomes(Unrefine(This))
    /\ op' = "Unrefine"
    /\ UNCHANGED probe

\* delete refiner: no call follows it.
CallDestroy ==
    /\ Exists
    /\ Becomes(Destroy(This))
    /\ op' = "Destroy"
    /\ UNCHANGED probe

Next ==
    \/ PopulateBaseLevel
    \/ CallRefineUniform
    \/ CallRefineAdaptive
    \/ CallUnrefine
    \/ CallDestroy

Spec == Init /\ [][Next]_vars

-----------------------------------------------------------------------------
(* FeatureMask on its own: InitializeFeatures and ReduceFeatures applied, in *)
(* any order, to any mask under any options and scheme.                      *)

MaxCalls == 2

FeatureMasks == [FeatureFlags -> BOOLEAN]

MaskOptionsSet ==
    [ isolationLevel : {0}, secondaryLevel : {0},
      useSingleCreasePatch : BOOLEAN, useInfSharpPatch : BOOLEAN,
      considerFVarChannels : BOOLEAN, orderVerticesFromFacesFirst : {FALSE} ]

\* The refiner the functions applied on their own do not touch.
IdleRefiner ==
    /\ StartsAs(Construct("SCHEME_CATMARK"))
    /\ op = "Construct"

members == << subdivType, levels, refinements, farLevels, isUniform, maxLevel,
              uniformOptions, adaptiveOptions, totalVertices, totalEdges, totalFaces,
              totalFaceVertices, maxValence, op, err, passes, freed >>

\* probe.mask is the mask, probe.before the mask before the last call,
\* probe.start the mask before the first, probe.calls the calls made on it.
InitFeatureMask ==
    /\ IdleRefiner
    /\ \E mask \in FeatureMasks, options \in MaskOptionsSet, schemeType \in SchemeTypes :
           probe = [ fn |-> "FeatureMask", mask |-> mask, before |-> mask, start |-> mask,
                     options |-> options, schemeType |-> schemeType, calls |-> << >> ]

ApplyInitializeFeatures ==
    /\ Len(probe.calls) < MaxCalls
    /\ probe' = [ probe EXCEPT
                    !.before = probe.mask,
                    !.mask = InitializeFeatures(probe.mask, probe.options, probe.schemeType),
                    !.calls = Append(@, "InitializeFeatures") ]
    /\ UNCHANGED members

ApplyReduceFeatures ==
    /\ Len(probe.calls) < MaxCalls
    /\ probe' = [ probe EXCEPT
                    !.before = probe.mask,
                    !.mask = ReduceFeatures(probe.mask, probe.options),
                    !.calls = Append(@, "ReduceFeatures") ]
    /\ UNCHANGED members

NextFeatureMask ==
    \/ ApplyInitializeFeatures
    \/ ApplyReduceFeatures

SpecFeatureMask == InitFeatureMask /\ [][NextFeatureMask]_vars

-----------------------------------------------------------------------------
(* The face classifiers on their own, applied to the corner tags of a face. *)

\* Vertex tags as Level assigns them: one rule each, with the tags that go
\* with smooth, extra-ordinary, incomplete, non-manifold, semi-sharp and
\* inf-sharp vertices, regular and irregular, interior and boundary.
CornerTags ==
    { Smooth, XordSmooth, IncompleteSmooth, InfCrease, SemiCrease,
      VTagOf(RULE_CORNER, {"nonManifold", "infSharp"}),
      VTagOf(RULE_CREASE, {"xordinary", "semiSharpEdges"}),
      VTagOf(RULE_CORNER, {"semiSharp"}),
      VTagOf(RULE_CREASE, {"infSharpEdges", "boundary"}),
      VTagOf(RULE_CREASE, {"infSharpEdges", "boundary", "xordinary", "infIrregular"}),
      VTagOf(RULE_CREASE, {"infSharpEdges", "xordinary", "infIrregular"}),
      VTagOf(RULE_DART, {"infSharpEdges", "infIrregular"}),
      VTagOf(RULE_DART, {"infSharpEdges"}),
      VTagOf(RULE_CORNER, {"infSharp"}),
      VTagOf(RULE_CORNER, {"infSharp", "boundary", "corner"}),
      VTagOf(RULE_CORNER, {"infSharpEdges", "boundary"}),
      VTagOf(RULE_CORNER, {"infSharp", "infIrregular"}) }

\* The corner tags of a triangle: two corners of any tag, the third smooth
\* or tagged as the first.
ProbeFaces ==
    { <<a, b, c>> : a \in CornerTags, b \in CornerTags, c \in {Smooth} } \cup
    { <<a, b, a>> : a \in CornerTags, b \in CornerTags }

\* The mask with the flags of set set.
MaskOf(set) == [flag \in FeatureFlags |-> flag \in set]

\* Masks: those RefineAdaptive can build, and those with no flag, with every
\* flag, with one flag and with every flag but one.
ProbeMasks ==
    { InitializeFeatures(Clear(<< >>), options, schemeType) :
        options \in MaskOptionsSet, schemeType \in SchemeTypes } \cup
    { ReduceFeatures(InitializeFeatures(Clear(<< >>), options, schemeType), options) :
        options \in MaskOptionsSet, schemeType \in SchemeTypes } \cup
    { MaskOf({}), MaskOf(FeatureFlags) } \cup
    { MaskOf({flag}) : flag \in FeatureFlags } \cup
    { MaskOf(FeatureFlags \ {flag}) : flag \in FeatureFlags }

\* level.getDepth() of the level the face is in
ProbeDepths == 0..MaxDepth

\* probe.returned tells whether the function has been applied; probe.result
\* is then what it returned.
InitFaceFeatures ==
    /\ IdleRefiner
    /\ \E vTags \in ProbeFaces, depth \in ProbeDepths, singleCrease \in BOOLEAN,
          featureMask \in ProbeMasks :
           probe = [ fn |-> "doesFaceHaveFeatures", vTags |-> vTags, depth |-> depth,
                     singleCrease |-> singleCrease, featureMask |-> featureMask,
                     returned |-> FALSE, result |-> FALSE ]

ApplyDoesFaceHaveFeatures ==
    /\ probe.fn = "doesFaceHaveFeatures"
    /\ ~probe.returned
    /\ probe' = [ probe EXCEPT
                    !.returned = TRUE,
                    !.result = FaceTagsHaveFeatures(probe.vTags, probe.depth,
                                                    probe.singleCrease, probe.featureMask) ]
    /\ UNCHANGED members

SpecFaceFeatures == InitFaceFeatures /\ [][ApplyDoesFaceHaveFeatures]_vars

\* Every flag set in featureMask is set in wider.
MaskWithin(featureMask, wider) ==
    \A flag \in FeatureFlags : featureMask[flag] => wider[flag]

\* Pairs of a mask and a mask with at least its flags, and the pairs of a
\* mask RefineAdaptive reduced and the full mask it was reduced from.
ProbeMaskPairs ==
    { pair \in ProbeMasks \X ProbeMasks : MaskWithin(pair[1], pair[2]) } \cup
    { << ReduceFeatures(FeatureMask(options, schemeType), options),
         FeatureMask(options, schemeType) >> :
        options \in MaskOptionsSet, schemeType \in SchemeTypes }

\* The face is classified under probe.featureMask and under probe.wider.
InitFacePair ==
    /\ IdleRefiner
    /\ \E vTags \in ProbeFaces, depth \in ProbeDepths, singleCrease \in BOOLEAN,
          pair \in ProbeMaskPairs :
           probe = [ fn |-> "doesFaceHaveFeatures twice", vTags |-> vTags,
                     depth |-> depth, singleCrease |-> singleCrease,
                     featureMask |-> pair[1], wider |-> pair[2],
                     returned |-> FALSE, result |-> FALSE, resultWider |-> FALSE ]

ApplyDoesFaceHaveFeaturesTwice ==
    /\ probe.fn = "doesFaceHaveFeatures twice"
    /\ ~probe.returned
    /\ probe' = [ probe EXCEPT
                    !.returned = TRUE,
                    !.result = FaceTagsHaveFeatures(probe.vTags, probe.depth,
                                                    probe.singleCrease, probe.featureMask),
                    !.resultWider = FaceTagsHaveFeatures(probe.vTags, probe.depth,
                                                         probe.singleCrease, probe.wider) ]
    /\ UNCHANGED members

SpecFacePair == InitFacePair /\ [][ApplyDoesFaceHaveFeaturesTwice]_vars

\* Aggregate tags: any combination of the rule bits with the irregular,
\* boundary and corner tags.
RuleBits == 0..(RULE_SMOOTH + RULE_DART + RULE_CREASE + RULE_CORNER)

AggregateTags ==
    { VTagOf(rule, flags \cup {"infSharp"}) :
        rule \in RuleBits, flags \in SUBSET {"infIrregular", "boundary", "corner"} }

InitInfSharp ==
    /\ IdleRefiner
    /\ \E compVTag \in AggregateTags, featureMask \in FeatureMasks :
           probe = [ fn |-> "doesInfSharpFaceHaveFeatures", compVTag |-> compVTag,
                     featureMask |-> featureMask, returned |-> FALSE, result |-> FALSE ]

ApplyDoesInfSharpFaceHaveFeatures ==
    /\ probe.fn = "doesInfSharpFaceHaveFeatures"
    /\ ~probe.returned
    /\ probe' = [ probe EXCEPT
                    !.returned = TRUE,
                    !.result = doesInfSharpFaceHaveFeatures(probe.compVTag,
                                                            probe.featureMask) ]
    /\ UNCHANGED members

SpecInfSharp == InitInfSharp /\ [][ApplyDoesInfSharpFaceHaveFeatures]_vars

\* Composite face-varying tags: the OR of the tags of the values around a
\* vertex, which may hold several rule bits.
CompositeTags ==
    { VTagOf(RULE_CREASE + RULE_CORNER, {"boundary", "infSharp", "infSharpEdges", "infIrregular"}),
      VTagOf(RULE_SMOOTH + RULE_CREASE, {"boundary", "infSharpEdges"}),
      VTagOf(RULE_SMOOTH + RULE_DART, {"infSharpEdges"}),
      VTagOf(RULE_DART + RULE_CREASE, {"infSharpEdges", "xordinary", "infIrregular"}) }

\* The composite tags of the corners of a triangle: those of ProbeFaces, and
\* those with a tag of several rule bits at the first corner.
ProbeFVarFaces ==
    ProbeFaces \cup
    { <<a, b, Smooth>> : a \in CompositeTags, b \in CornerTags \cup CompositeTags } \cup
    { <<a, b, a>> : a \in CompositeTags, b \in CornerTags \cup CompositeTags }

\* The composite face-varying tags of the corners of a face, under the masks.
InitFVarFeatures ==
    /\ IdleRefiner
    /\ \E vTags \in ProbeFVarFaces, featureMask \in ProbeMasks :
           probe = [ fn |-> "doesFaceHaveDistinctFaceVaryingFeatures", vTags |-> vTags,
                     featureMask |-> featureMask, returned |-> FALSE, result |-> FALSE ]

ApplyDoesFaceHaveDistinctFaceVaryingFeatures ==
    /\ probe.fn = "doesFaceHaveDistinctFaceVaryingFeatures"
    /\ ~probe.returned
    /\ probe' = [ probe EXCEPT
                    !.returned = TRUE,
                    !.result = FVarTagsHaveFeatures(probe.vTags, probe.featureMask) ]
    /\ UNCHANGED members

SpecFVarFeatures ==
    InitFVarFeatures /\ [][ApplyDoesFaceHaveDistinctFaceVaryingFeatures]_vars

-----------------------------------------------------------------------------
(* Properties *)

RefineCalls == {"RefineUniform", "RefineAdaptive"}

\* C1: after construction and after every call of RefineUniform,
\* RefineAdaptive or Unrefine, whether it succeeds or fails, there is one
\* level more than there are refinement steps, and at least one level.
C1_LevelsAreRefinementsPlusOne ==
    /\ Len(levels) = Len(refinements) + 1
    /\ Len(levels) >= 1

\* An adaptive run that went to the full depth.
C1_Witness ==
    /\ op = "RefineAdaptive"
    /\ err = NoError
    /\ Len(refinements) = MaxDepth
    /\ Len(levels) = MaxDepth + 1

\* C2: while a refinement step is present, every call of RefineUniform or
\* RefineAdaptive reports the error "previous refinements already applied"
\* and leaves the levels and the refinement steps as they were; Unrefine
\* removes the steps, and the refine call that follows an Unrefine is not
\* refused for that reason.
C2_RefusedUntilUnrefine ==
    [][ /\ (Len(refinements) > 0 /\ op' \in RefineCalls)
            => (err' = ErrAlreadyRefined /\ levels' = levels /\ refinements' = refinements)
        /\ (op' = "Unrefine") => (Len(refinements') = 0)
        /\ (op = "Unrefine" /\ op' \in RefineCalls) => (err' # ErrAlreadyRefined)
      ]_vars

\* RefineAdaptive refused on a hierarchy that RefineUniform refined.
C2_Witness ==
    /\ op = "RefineAdaptive"
    /\ err = ErrAlreadyRefined
    /\ isUniform
    /\ Len(refinements) > 0

\* Whether the refine call named call fails a precondition in this state.
RefinePreconditionFails(call) ==
    \/ getNumVertices(levels[1]) = 0
    \/ Len(refinements) > 0
    \/ (call = "RefineAdaptive" /\ subdivType # "SCHEME_CATMARK")

\* C3: a refine call that fails a precondition reports an error and changes
\* nothing: levels, refinement steps, inventory, max valence, isUniform,
\* maxLevel, the stored options and the level view are as before the call.
C3_FailedRefineChangesNothing ==
    [][ (op' \in RefineCalls /\ RefinePreconditionFails(op'))
            => /\ err' # NoError
               /\ UNCHANGED << subdivType, levels, refinements, farLevels, isUniform,
                               maxLevel, uniformOptions, adaptiveOptions, totalVertices,
                               totalEdges, totalFaces, totalFaceVertices, maxValence >>
      ]_vars

\* RefineAdaptive refused for the scheme, on a populated and unrefined base.
C3_Witness ==
    /\ op = "RefineAdaptive"
    /\ err = ErrNotCatmark
    /\ totalVertices > 0
    /\ Len(refinements) = 0

\* C4: after Unrefine there is exactly one level, the base level, no
\* refinement step, and the inventory holds the base level's own counts.
C4_UnrefineLeavesBaseLevel ==
    [][ (op' = "Unrefine")
            => /\ levels' = <<levels[1]>>
               /\ refinements' = << >>
               /\ totalVertices' = getNumVertices(levels[1])
               /\ totalEdges' = getNumEdges(levels[1])
               /\ totalFaces' = getNumFaces(levels[1])
               /\ totalFaceVertices' = getNumFaceVerticesTotal(levels[1])
               /\ maxValence' = getMaxValence(levels[1])
      ]_vars

\* Unrefine released levels and steps of a populated hierarchy.
C4_Witness ==
    /\ op = "Unrefine"
    /\ Len(freed) = 2 * MaxDepth
    /\ totalVertices > 0
    /\ Len(levels) = 1

\* C5: a successful RefineUniform with refinementLevel d ends with d + 1
\* levels, d refinement steps, maxLevel d and isUniform set.
C5_UniformReachesRequestedDepth ==
    (op = "RefineUniform" /\ err = NoError)
        => /\ Len(levels) = uniformOptions.refinementLevel + 1
           /\ Len(refinements) = uniformOptions.refinementLevel
           /\ maxLevel = uniformOptions.refinementLevel
           /\ isUniform

\* A uniform run to the largest depth, on a refiner whose options show an
\* earlier adaptive run.
C5_Witness ==
    /\ op = "RefineUniform"
    /\ err = NoError
    /\ uniformOptions.refinementLevel = MaxDepth
    /\ Len(levels) = MaxDepth + 1
    /\ adaptiveOptions.isolationLevel > 0

\* C6: after a successful RefineAdaptive maxLevel is the number of
\* refinement steps, which is at most isolationLevel, and isUniform is clear.
C6_AdaptiveMaxLevelIsStepsAppended ==
    (op = "RefineAdaptive" /\ err = NoError)
        => /\ maxLevel = Len(refinements)
           /\ Len(refinements) <= adaptiveOptions.isolationLevel
           /\ ~isUniform

\* An adaptive run that stopped before the requested depth.
C6_Witness ==
    /\ op = "RefineAdaptive"
    /\ err = NoError
    /\ Len(refinements) >= 1
    /\ Len(refinements) < adaptiveOptions.isolationLevel

\* A level with no irregular face and no selectable feature: every face has
\* the scheme's regular size, smooth untagged corners and, in every channel,
\* the face-varying topology of the mesh.
Featureless(level) ==
    \A face \in 1..getNumFaces(level) :
        /\ Len(getFaceVertices(level, face)) = GetRegularFaceSize(subdivType)
        /\ \A i \in 1..Len(getFaceVertices(level, face)) :
               getFaceVTags(level, face)[i] = Smooth
        /\ \A channel \in 1..getNumFVarChannels(level) :
               doesFaceFVarTopologyMatch(level, face, channel)

\* C7: the passes of a RefineAdaptive run are those for depths 1, 2, ... in
\* order, each on the level the pass before appended; every pass before the
\* last made a selection; if the last pass selected nothing its level and
\* step were deleted and nothing was appended for it, otherwise the run
\* went to isolationLevel; a featureless base mesh gives no refinement
\* step, no further level and maxLevel 0.
C7_PassesStopAtFirstEmptySelection ==
    (op = "RefineAdaptive" /\ err = NoError)
        => LET n == Len(passes)
           IN  /\ n <= adaptiveOptions.isolationLevel
               /\ \A k \in 1..n : passes[k].depth = k /\ passes[k].parent = levels[k].id
               /\ \A k \in 1..(n - 1) : passes[k].calls # << >>
               /\ IF n > 0 /\ passes[n].calls = << >>
                  THEN /\ Len(refinements) = n - 1
                       /\ Len(levels) = n
                       /\ freed = << <<"refinement", n>>, <<"level", n + 1>> >>
                  ELSE /\ Len(refinements) = n
                       /\ n = adaptiveOptions.isolationLevel
                       /\ freed = << >>
               /\ Featureless(levels[1])
                      => (Len(refinements) = 0 /\ Len(levels) = 1 /\ maxLevel = 0)

\* A featureless base mesh: the first of the requested passes selects
\* nothing and is the only one.
C7_Witness ==
    /\ op = "RefineAdaptive"
    /\ err = NoError
    /\ adaptiveOptions.isolationLevel = MaxDepth
    /\ Featureless(levels[1])
    /\ Len(passes) = 1
    /\ passes[1].calls = << >>
    /\ Len(refinements) = 0

\* The sum of the first n entries of counts.
RECURSIVE SumOverLevels(_, _)
SumOverLevels(counts, n) ==
    IF n = 0 THEN 0 ELSE SumOverLevels(counts, n - 1) + counts[n]

\* C8: the total vertex, edge, face and face-vertex counts are the sums of
\* the levels' counts, and max valence is the largest of the levels' max
\* valences (the inventory being initialized when the base level is filled).
C8_InventoryIsSumOverLevels ==
    /\ totalVertices = SumOverLevels([i \in 1..Len(levels) |-> getNumVertices(levels[i])], Len(levels))
    /\ totalEdges = SumOverLevels([i \in 1..Len(levels) |-> getNumEdges(levels[i])], Len(levels))
    /\ totalFaces = SumOverLevels([i \in 1..Len(levels) |-> getNumFaces(levels[i])], Len(levels))
    /\ totalFaceVertices = SumOverLevels([i \in 1..Len(levels) |-> getNumFaceVerticesTotal(levels[i])], Len(levels))
    /\ \A i \in 1..Len(levels) : maxValence >= getMaxValence(levels[i])
    /\ \E i \in 1..Len(levels) : maxValence = getMaxValence(levels[i])

\* Three levels whose face and face-vertex counts differ, after a refine call.
C8_Witness ==
    /\ op \in RefineCalls
    /\ Len(levels) = 3
    /\ totalFaces = 9
    /\ totalFaceVertices = 37

\* C9: the level view has one entry per level; entry i holds level i, the
\* refinement step before it (none for the base level) and the refinement
\* step after it (none for the last level).
C9_LevelViewMirrorsStacks ==
    /\ Len(farLevels) = Len(levels)
    /\ \A i \in 1..Len(levels) :
           /\ farLevels[i].level = levels[i].id
           /\ farLevels[i].refToParent =
                  (IF i = 1 THEN NullPtr ELSE refinements[i - 1].id)
           /\ farLevels[i].refToChild =
                  (IF i = Len(levels) THEN NullPtr ELSE refinements[i].id)

\* A view of three levels, whose middle entry has both steps.
C9_Witness ==
    /\ Len(farLevels) = 3
    /\ farLevels[2].refToParent # NullPtr
    /\ farLevels[2].refToChild # NullPtr
    /\ farLevels[2].refToChild # farLevels[2].refToParent

\* Whether a corner of the face has an incomplete neighbourhood: the
\* incomplete bit of the face's aggregate corner tag.
FaceIsIncomplete(level, face) ==
    \E i \in 1..Len(getFaceVertices(level, face)) :
        Topology(level).vtags[getFaceVertices(level, face)[i]].incomplete

\* C10: no pass of RefineAdaptive hands the selector a face whose aggregate
\* corner tag is marked incomplete.
C10_NoIncompleteFaceSelected ==
    \A k \in 1..Len(passes) :
        \A j \in 1..Len(passes[k].calls) :
            ~FaceIsIncomplete(levels[k], passes[k].calls[j])

\* The flags set in a mask.
FlagsSet(mask) == {flag \in FeatureFlags : mask[flag]}

\* The last call made on the probed mask, "" before the first.
LastMaskCall ==
    IF probe.fn = "FeatureMask" /\ probe.calls # << >>
    THEN probe.calls[Len(probe.calls)] ELSE ""

\* C11: after InitializeFeatures the 11 flags are those of the table: the
\* two extra-ordinary flags, semiSharpNonSingle, the three irregular
\* inf-sharp flags and nonManifold set; semiSharpSingle unless single-crease
\* patches are eligible; infSharpRegularCrease unless useInfSharpPatch or
\* single-crease patches are eligible; infSharpRegularCorner unless
\* useInfSharpPatch; fvarFeatures as considerFVarChannels; single-crease
\* patches being eligible when useSingleCreasePatch is set and the scheme's
\* regular face size is 4.
C11_InitializeFeaturesFollowsTable ==
    (LastMaskCall = "InitializeFeatures")
        => LET singleCreasePatchEligible ==
                   /\ probe.options.useSingleCreasePatch
                   /\ GetRegularFaceSize(probe.schemeType) = 4
           IN  FlagsSet(probe.mask) =
                   { "selectXOrdinaryInterior", "selectXOrdinaryBoundary",
                     "selectSemiSharpNonSingle", "selectInfSharpIrregularDart",
                     "selectInfSharpIrregularCrease", "selectInfSharpIrregularCorner",
                     "selectNonManifold" }
                   \cup (IF singleCreasePatchEligible THEN {} ELSE {"selectSemiSharpSingle"})
                   \cup (IF probe.options.useInfSharpPatch \/ singleCreasePatchEligible
                         THEN {} ELSE {"selectInfSharpRegularCrease"})
                   \cup (IF probe.options.useInfSharpPatch
                         THEN {} ELSE {"selectInfSharpRegularCorner"})
                   \cup (IF probe.options.considerFVarChannels
                         THEN {"selectFVarFeatures"} ELSE {})

\* InitializeFeatures on a mask with every flag clear, for a triangle scheme
\* with the single-crease option set.
C11_Witness ==
    /\ LastMaskCall = "InitializeFeatures"
    /\ FlagsSet(probe.before) = {}
    /\ probe.schemeType = "SCHEME_LOOP"
    /\ probe.options.useSingleCreasePatch
    /\ probe.mask.selectSemiSharpSingle

\* C12: ReduceFeatures applied twice with the same options leaves the mask
\* that applying it once left.
C12_ReduceFeaturesIsIdempotent ==
    ( /\ probe.fn = "FeatureMask"
      /\ Len(probe.calls) >= 2
      /\ probe.calls[Len(probe.calls)] = "ReduceFeatures"
      /\ probe.calls[Len(probe.calls) - 1] = "ReduceFeatures" )
        => probe.mask = probe.before

\* Two reductions of a mask that had extra-ordinary and inf-sharp flags set,
\* the first of which cleared them.
C12_Witness ==
    /\ probe.fn = "FeatureMask"
    /\ probe.calls = <<"ReduceFeatures", "ReduceFeatures">>
    /\ probe.options.useInfSharpPatch
    /\ probe.start.selectXOrdinaryInterior
    /\ probe.start.selectInfSharpRegularCrease
    /\ probe.mask # probe.start

InfSharpFlagsReduced ==
    { "selectInfSharpRegularCrease", "selectInfSharpRegularCorner",
      "selectInfSharpIrregularDart", "selectInfSharpIrregularCrease" }

\* C16: ReduceFeatures clears xordinaryInterior and xordinaryBoundary; with
\* useInfSharpPatch it also clears infSharpRegularCrease,
\* infSharpRegularCorner, infSharpIrregularDart and infSharpIrregularCrease,
\* and without it leaves those four as they were; infSharpIrregularCorner,
\* semiSharpSingle, semiSharpNonSingle, nonManifold and fvarFeatures are
\* as they were in every case.
C16_ReduceFeaturesFrame ==
    (LastMaskCall = "ReduceFeatures")
        => /\ ~probe.mask.selectXOrdinaryInterior
           /\ ~probe.mask.selectXOrdinaryBoundary
           /\ \A flag \in InfSharpFlagsReduced :
                  probe.mask[flag] =
                      (IF probe.options.useInfSharpPatch THEN FALSE ELSE probe.before[flag])
           /\ \A flag \in { "selectInfSharpIrregularCorner", "selectSemiSharpSingle",
                            "selectSemiSharpNonSingle", "selectNonManifold",
                            "selectFVarFeatures" } :
                  probe.mask[flag] = probe.before[flag]

\* A reduction with useInfSharpPatch of a mask that had every flag set: the
\* irregular corner flag is the only inf-sharp flag left.
C16_Witness ==
    /\ LastMaskCall = "ReduceFeatures"
    /\ probe.options.useInfSharpPatch
    /\ FlagsSet(probe.before) = FeatureFlags
    /\ probe.mask.selectInfSharpIrregularCorner
    /\ ~probe.mask.selectInfSharpIrregularCrease

\* The non-hole faces of a level whose vertex count is not the regular size.
IrregularFaces(level) ==
    { face \in 1..getNumFaces(level) :
        /\ ~isFaceHole(level, face)
        /\ Len(getFaceVertices(level, face)) # GetRegularFaceSize(subdivType) }

\* The vertices of a face, as a set.
VerticesOf(level, face) ==
    { getFaceVertices(level, face)[i] : i \in 1..Len(getFaceVertices(level, face)) }

\* The face and every face that has one of its vertices.
FaceAndNeighbours(level, face) ==
    { other \in 1..getNumFaces(level) :
        VerticesOf(level, other) \cap VerticesOf(level, face) # {} }

\* Every face of regular size that is not a hole has smooth untagged
\* corners and, in every channel, the face-varying topology of the mesh.
RegularFacesFeatureless(level) ==
    \A face \in 1..getNumFaces(level) :
        ( /\ ~isFaceHole(level, face)
          /\ Len(getFaceVertices(level, face)) = GetRegularFaceSize(subdivType) )
            => /\ \A i \in 1..Len(getFaceVertices(level, face)) :
                      getFaceVTags(level, face)[i] = Smooth
               /\ \A channel \in 1..getNumFVarChannels(level) :
                      doesFaceFVarTopologyMatch(level, face, channel)

\* The faces the selector of pass k was handed.
FacesSelected(k) == { passes[k].calls[j] : j \in 1..Len(passes[k].calls) }

\* C13: in the depth-0 pass under a scheme of nonzero neighbourhood size,
\* the selector receives every non-hole face of irregular size and every
\* face that has a vertex of such a face; on a mesh that is otherwise
\* regular and featureless it receives no other face.
C13_IrregularFaceSelectsOneRing ==
    ( /\ op = "RefineAdaptive"
      /\ err = NoError
      /\ Len(passes) >= 1
      /\ GetLocalNeighborhoodSize(subdivType) # 0 )
        => LET ring == UNION { FaceAndNeighbours(levels[1], face) :
                               face \in IrregularFaces(levels[1]) }
           IN  /\ ring \subseteq FacesSelected(1)
               /\ RegularFacesFeatureless(levels[1]) => (FacesSelected(1) = ring)

\* A pentagon among smooth quads: the pentagon and the two quads that touch
\* it are selected, the quad that does not touch it is not.
C13_Witness ==
    /\ op = "RefineAdaptive"
    /\ err = NoError
    /\ Len(passes) >= 1
    /\ IrregularFaces(levels[1]) # {}
    /\ RegularFacesFeatureless(levels[1])
    /\ Cardinality(FacesSelected(1)) = 3
    /\ Cardinality(FacesSelected(1)) < getNumFaces(levels[1])

\* C14: Unrefine and the destruction of the refiner release the levels and
\* the refinement steps in the reverse of the order of their creation: of
\* two levels, or of two steps, the one created later is deleted first.
C14_ReleasedInReverseOrder ==
    (op \in {"Unrefine", "Destroy"})
        => \A i, j \in 1..Len(freed) :
               (i < j /\ freed[i][1] = freed[j][1]) => freed[i][2] > freed[j][2]

\* The flags of the full mask of the last RefineAdaptive run: those the
\* options and the scheme give, fvarFeatures only if the base level has a
\* non-linear face-varying channel.
FullFlagsOfRun ==
    LET singleCreasePatchEligible ==
            adaptiveOptions.useSingleCreasePatch /\ GetRegularFaceSize(subdivType) = 4
    IN  { "selectXOrdinaryInterior", "selectXOrdinaryBoundary",
          "selectSemiSharpNonSingle", "selectInfSharpIrregularDart",
          "selectInfSharpIrregularCrease", "selectInfSharpIrregularCorner",
          "selectNonManifold" }
        \cup (IF singleCreasePatchEligible THEN {} ELSE {"selectSemiSharpSingle"})
        \cup (IF adaptiveOptions.useInfSharpPatch \/ singleCreasePatchEligible
              THEN {} ELSE {"selectInfSharpRegularCrease"})
        \cup (IF adaptiveOptions.useInfSharpPatch
              THEN {} ELSE {"selectInfSharpRegularCorner"})
        \cup (IF /\ adaptiveOptions.considerFVarChannels
                 /\ \E channel \in 1..getNumFVarChannels(levels[1]) :
                        ~isLinear(levels[1], channel)
              THEN {"selectFVarFeatures"} ELSE {})

\* The flags of the reduced mask of the last RefineAdaptive run.
ReducedFlagsOfRun ==
    (FullFlagsOfRun \ {"selectXOrdinaryInterior", "selectXOrdinaryBoundary"})
        \ (IF adaptiveOptions.useInfSharpPatch
           THEN { "selectInfSharpRegularCrease", "selectInfSharpRegularCorner",
                  "selectInfSharpIrregularDart", "selectInfSharpIrregularCrease" }
           ELSE {})

ShallowLevelOfRun ==
    IF adaptiveOptions.secondaryLevel <= adaptiveOptions.isolationLevel
    THEN adaptiveOptions.secondaryLevel ELSE adaptiveOptions.isolationLevel

\* C15: with shallowLevel = min(secondaryLevel, isolationLevel), the pass
\* that creates depth i classifies with the full mask when i <= shallowLevel
\* and with the reduced mask when i > shallowLevel; the two masks are the
\* same for every pass of the run.
C15_MaskByDepth ==
    (op = "RefineAdaptive" /\ err = NoError)
        => \A i \in 1..Len(passes) :
               /\ passes[i].depth = i
               /\ FlagsSet(passes[i].mask) =
                      (IF i <= ShallowLevelOfRun THEN FullFlagsOfRun ELSE ReducedFlagsOfRun)

\* A run whose first pass used the full mask and whose second pass used the
\* reduced one.
C15_Witness ==
    /\ op = "RefineAdaptive"
    /\ err = NoError
    /\ Len(passes) = 2
    /\ ShallowLevelOfRun = 1
    /\ passes[1].mask.selectXOrdinaryInterior
    /\ ~passes[2].mask.selectXOrdinaryInterior

\* Whether the bit of a crease rule is set in the rule field of a tag.
HasRuleBit(tag, ruleBit) == (tag.rule \div ruleBit) % 2 = 1

\* The flag that decides an aggregate tag in the inf-sharp classifier, ""
\* where the tag is never selected: corner before crease before dart.
InfSharpFlagFor(tag) ==
    CASE tag.infIrregular /\ HasRuleBit(tag, RULE_CORNER) -> "selectInfSharpIrregularCorner"
      [] tag.infIrregular /\ ~HasRuleBit(tag, RULE_CORNER) /\ HasRuleBit(tag, RULE_CREASE)
             -> (IF tag.boundary THEN "selectXOrdinaryBoundary"
                 ELSE "selectInfSharpIrregularCrease")
      [] tag.infIrregular /\ ~HasRuleBit(tag, RULE_CORNER) /\ ~HasRuleBit(tag, RULE_CREASE)
             -> (IF HasRuleBit(tag, RULE_DART) THEN "selectInfSharpIrregularDart" ELSE "")
      [] ~tag.infIrregular /\ tag.boundary
             -> (IF HasRuleBit(tag, RULE_CORNER) /\ ~tag.corner
                 THEN "selectInfSharpRegularCorner" ELSE "")
      [] ~tag.infIrregular /\ ~tag.boundary
             -> (IF HasRuleBit(tag, RULE_CORNER) THEN "selectInfSharpRegularCorner"
                 ELSE "selectInfSharpRegularCrease")

\* What the inf-sharp classifier is to return for a tag under a mask.
InfSharpExpected(tag, mask) ==
    InfSharpFlagFor(tag) # "" /\ mask[InfSharpFlagFor(tag)]

\* C18: doesInfSharpFaceHaveFeatures returns, for an irregular tag,
\* infSharpIrregularCorner if the corner rule bit is set, else with the
\* crease rule bit xordinaryBoundary on a boundary and
\* infSharpIrregularCrease in the interior, else with the dart rule bit
\* infSharpIrregularDart, else false; for a regular boundary tag
\* infSharpRegularCorner if the corner rule bit is set and the corner tag
\* clear, else false; for a regular interior tag infSharpRegularCorner with
\* the corner rule bit and infSharpRegularCrease without it.
C18_InfSharpClassifierFollowsTable ==
    (probe.fn = "doesInfSharpFaceHaveFeatures" /\ probe.returned)
        => probe.result = InfSharpExpected(probe.compVTag, probe.featureMask)

\* An irregular interior tag with the corner and the crease bit, under a mask
\* that selects irregular corners and not irregular creases: selected.
C18_Witness ==
    /\ probe.fn = "doesInfSharpFaceHaveFeatures"
    /\ probe.returned
    /\ probe.compVTag.infIrregular
    /\ ~probe.compVTag.boundary
    /\ probe.compVTag.rule = RULE_CORNER + RULE_CREASE + RULE_SMOOTH
    /\ probe.featureMask.selectInfSharpIrregularCorner
    /\ ~probe.featureMask.selectInfSharpIrregularCrease
    /\ probe.result

\* Whether some corner of a face has a tag bit.
SomeCorner(vTags, bit) == \E i \in 1..Len(vTags) : vTags[i][bit]

\* The crease rules of the corners of a face: the rule bits set in the rule
\* field of some corner, which are the bits of the aggregate's rule field.
CornerRules(vTags) ==
    { ruleBit \in {RULE_SMOOTH, RULE_DART, RULE_CREASE, RULE_CORNER} :
        \E i \in 1..Len(vTags) : HasRuleBit(vTags[i], ruleBit) }

\* The aggregate of the corner tags, for the inf-sharp classifier: a tag bit
\* is set if some corner has it, a rule bit if some corner has the rule.
AggregateOf(vTags) ==
    [ bit \in {"infIrregular", "boundary", "corner"} |-> SomeCorner(vTags, bit) ] @@
    [ rule |-> (IF RULE_SMOOTH \in CornerRules(vTags) THEN RULE_SMOOTH ELSE 0)
             + (IF RULE_DART \in CornerRules(vTags) THEN RULE_DART ELSE 0)
             + (IF RULE_CREASE \in CornerRules(vTags) THEN RULE_CREASE ELSE 0)
             + (IF RULE_CORNER \in CornerRules(vTags) THEN RULE_CORNER ELSE 0) ]

\* The nine steps of the face classifier, each a condition and the result
\* returned where it is the first condition to hold.
FaceFeatureSteps(vTags, depth, singleCrease, mask) ==
    << << FlagsSet(mask) = {}, FALSE >>,
       << SomeCorner(vTags, "incomplete"), FALSE >>,
       << SomeCorner(vTags, "nonManifold") /\ mask.selectNonManifold, TRUE >>,
       << /\ SomeCorner(vTags, "xordinary") /\ mask.selectXOrdinaryInterior
          /\ \/ CornerRules(vTags) = {RULE_SMOOTH}
             \/ /\ depth < 2
                /\ \E i \in 1..Len(vTags) :
                       vTags[i].xordinary /\ vTags[i].rule = RULE_SMOOTH,
          TRUE >>,
       << CornerRules(vTags) = {RULE_SMOOTH}, FALSE >>,
       << RULE_SMOOTH \notin CornerRules(vTags), TRUE >>,
       << SomeCorner(vTags, "semiSharp") \/ SomeCorner(vTags, "semiSharpEdges"),
          IF mask.selectSemiSharpSingle /\ mask.selectSemiSharpNonSingle THEN TRUE
          ELSE IF singleCrease THEN mask.selectSemiSharpSingle
          ELSE mask.selectSemiSharpNonSingle >>,
       << SomeCorner(vTags, "infSharp") \/ SomeCorner(vTags, "infSharpEdges"),
          InfSharpExpected(AggregateOf(vTags), mask) >>,
       << TRUE, FALSE >> >>

\* The step that decides: the first whose condition holds.
DecidingStep(steps) ==
    CHOOSE n \in 1..Len(steps) : steps[n][1] /\ \A m \in 1..(n - 1) : ~steps[m][1]

\* C17: doesFaceHaveFeatures returns the result of the first step that
\* applies, of: empty mask -> false; aggregate incomplete -> false;
\* aggregate non-manifold and nonManifold set -> true; aggregate
\* extra-ordinary, xordinaryInterior set and either the aggregate rule
\* exactly smooth or, at depth < 2, one corner both extra-ordinary and
\* smooth -> true; aggregate rule exactly smooth -> false; no corner smooth
\* -> true; aggregate semi-sharp -> true if both semi-sharp flags are set,
\* else semiSharpSingle for a single-crease face, else semiSharpNonSingle;
\* aggregate inf-sharp -> the inf-sharp classifier's result; otherwise false.
C17_FaceClassifierFollowsSteps ==
    (probe.fn = "doesFaceHaveFeatures" /\ probe.returned)
        => LET steps == FaceFeatureSteps(probe.vTags, probe.depth, probe.singleCrease,
                                         probe.featureMask)
           IN  probe.result = steps[DecidingStep(steps)][2]

\* At depth 1, a face with a smooth extra-ordinary corner and a semi-sharp
\* crease corner, under a mask that selects extra-ordinary vertices and no
\* semi-sharp feature: selected for the single corner.
C17_Witness ==
    /\ probe.fn = "doesFaceHaveFeatures"
    /\ probe.returned
    /\ probe.depth = 1
    /\ probe.vTags[1] = XordSmooth
    /\ probe.vTags[2] = SemiCrease
    /\ probe.featureMask = MaskOf({"selectXOrdinaryInterior"})
    /\ probe.result

\* The face-varying classifier as the code has it: the first step that
\* applies decides.
FVarFeatureSteps(vTags, mask) ==
    << << SomeCorner(vTags, "nonManifold") /\ mask.selectNonManifold, TRUE >>,
       << SomeCorner(vTags, "xordinary") /\ mask.selectXOrdinaryInterior, TRUE >>,
       << RULE_SMOOTH \notin CornerRules(vTags), TRUE >>,
       << TRUE, InfSharpExpected(AggregateOf(vTags), mask) >> >>

\* C19 (amended): in face-varying classification the aggregate of the
\* composite face-varying tags is tested in order: non-manifold and the
\* nonManifold flag set -> true; extra-ordinary and the xordinaryInterior
\* flag set -> true; no corner smooth -> true; otherwise the result of the
\* inf-sharp classifier.
C19_FVarClassifierFollowsSteps ==
    (probe.fn = "doesFaceHaveDistinctFaceVaryingFeatures" /\ probe.returned)
        => LET steps == FVarFeatureSteps(probe.vTags, probe.featureMask)
           IN  probe.result = steps[DecidingStep(steps)][2]

\* A face with a smooth corner and an interior inf-sharp crease corner,
\* under a mask without the regular crease flag: not fully smooth, and not
\* selected.
C19_Witness ==
    /\ probe.fn = "doesFaceHaveDistinctFaceVaryingFeatures"
    /\ probe.returned
    /\ probe.vTags = <<InfCrease, Smooth, Smooth>>
    /\ ~probe.featureMask.selectInfSharpRegularCrease
    /\ probe.featureMask.selectFVarFeatures
    /\ ~probe.result

\* C19 as stated: non-manifold -> the nonManifold flag; extra-ordinary ->
\* the xordinaryInterior flag; aggregate rule not fully smooth -> true;
\* otherwise the result of the inf-sharp classifier.
C19_FVarClassifierAsStated ==
    (probe.fn = "doesFaceHaveDistinctFaceVaryingFeatures" /\ probe.returned)
        => probe.result =
               (IF SomeCorner(probe.vTags, "nonManifold")
                THEN probe.featureMask.selectNonManifold
                ELSE IF SomeCorner(probe.vTags, "xordinary")
                THEN probe.featureMask.selectXOrdinaryInterior
                ELSE IF CornerRules(probe.vTags) # {RULE_SMOOTH} THEN TRUE
                ELSE InfSharpExpected(AggregateOf(probe.vTags), probe.featureMask))

\* C20: within one pass selectFace is called at most once for a face: no
\* face index occurs twice among the calls of a pass.
C20_FaceSelectedAtMostOncePerPass ==
    \A k \in 1..Len(passes) :
        \A i, j \in 1..Len(passes[k].calls) :
            (passes[k].calls[i] = passes[k].calls[j]) => (i = j)

-----------------------------------------------------------------------------
(* RefineAdaptive and the schemes of zero neighbourhood size *)

\* A call of RefineAdaptive on a populated, unrefined refiner of a scheme
\* whose local neighbourhood size is zero has returned.
ZeroNeighborhoodCall ==
    /\ op = "RefineAdaptive"
    /\ GetLocalNeighborhoodSize(subdivType) = 0
    /\ err \notin {ErrUninitialized, ErrAlreadyRefined}

\* The faces of the sequence calls are those of the set faces, each once.
EachOnce(calls, faces) ==
    /\ { calls[j] : j \in 1..Len(calls) } = faces
    /\ Len(calls) = Cardinality(faces)

\* C21 as stated: RefineAdaptive on a scheme of zero neighbourhood size runs
\* its passes with empty masks, the depth-0 pass selects the faces of
\* irregular size, each alone, and no later pass selects a face.
C21_ZeroNeighborhoodAsStated ==
    ZeroNeighborhoodCall
        => /\ err = NoError
           /\ \A k \in 1..Len(passes) :
                  /\ IsEmpty(passes[k].mask)
                  /\ IF k = 1
                     THEN EachOnce(passes[k].calls, IrregularFaces(levels[1]))
                     ELSE passes[k].calls = << >>

\* C21: RefineAdaptive on a scheme of zero neighbourhood size, the base
\* level populated and no refinement applied, is refused with the error
\* "currently only supported for Catmark scheme": no pass runs, no face is
\* selected at any depth and no level or refinement step is appended.
C21_ZeroNeighborhoodRefused ==
    ZeroNeighborhoodCall
        => /\ err = ErrNotCatmark
           /\ passes = << >>
           /\ refinements = << >>
           /\ Len(levels) = 1

\* The call refused on a bilinear refiner whose base mesh has a pentagon.
C21_Witness ==
    /\ op = "RefineAdaptive"
    /\ subdivType = "SCHEME_BILINEAR"
    /\ err = ErrNotCatmark
    /\ IrregularFaces(levels[1]) # {}
    /\ passes = << >>

-----------------------------------------------------------------------------
(* Face-varying features without a non-linear channel *)

\* The base level has no face-varying channel that is not linear.
NoNonLinearChannel ==
    \A channel \in 1..getNumFVarChannels(levels[1]) : isLinear(levels[1], channel)

\* C22: after a RefineAdaptive that was asked to consider the face-varying
\* channels of a base level without a non-linear channel (or without any
\* channel), selectFVarFeatures is clear in the full and in the reduced mask
\* and in the mask of every pass, and no pass has evaluated the face-varying
\* classification of a face.
C22_NoFVarFeaturesWithoutNonLinearChannel ==
    ( /\ op = "RefineAdaptive"
      /\ err = NoError
      /\ adaptiveOptions.considerFVarChannels
      /\ NoNonLinearChannel )
        => /\ ~AdaptiveMasks(This, adaptiveOptions).more.selectFVarFeatures
           /\ ~AdaptiveMasks(This, adaptiveOptions).less.selectFVarFeatures
           /\ \A k \in 1..Len(passes) :
                  /\ ~passes[k].mask.selectFVarFeatures
                  /\ passes[k].fvarTests = << >>

\* A run over a base level whose one channel is linear and whose topology
\* differs from the mesh at a face the depth-0 pass did not select.
C22_Witness ==
    /\ op = "RefineAdaptive"
    /\ err = NoError
    /\ adaptiveOptions.considerFVarChannels
    /\ getNumFVarChannels(levels[1]) = 1
    /\ isLinear(levels[1], 1)
    /\ Len(passes) >= 1
    /\ \E face \in 1..getNumFaces(levels[1]) :
           /\ ~doesFaceFVarTopologyMatch(levels[1], face, 1)
           /\ face \notin FacesSelected(1)

-----------------------------------------------------------------------------
(* _isUniform and the call that made the refinement steps *)

\* The step was executed by RefineUniform (sparse = false in its options).
MadeByRefineUniform(refinement) == ~refinement.options.sparse

\* A step that belongs to one operation: what it may do to _isUniform and
\* to the refinement steps.
IsUniformStep ==
    /\ (isUniform' # isUniform) => (op' \in RefineCalls /\ err' = NoError)
    /\ (op' \in RefineCalls /\ err' = NoError)
           => (isUniform' = (op' = "RefineUniform"))
    /\ (refinements' # refinements /\ refinements' # << >>)
           => /\ refinements = << >>
              /\ op' \in RefineCalls
              /\ err' = NoError
              /\ \A k \in 1..Len(refinements') :
                     MadeByRefineUniform(refinements'[k]) = (op' = "RefineUniform")
    /\ \A k \in 1..Len(refinements') :
           isUniform' = MadeByRefineUniform(refinements'[k])

\* C23: the refinement steps of a state were all made by one accepted refine
\* call, which started from no step; isUniform is true when that call was
\* RefineUniform and false when it was RefineAdaptive; isUniform changes
\* only in an accepted refine call, which leaves it true for RefineUniform
\* and false for RefineAdaptive.
C23_IsUniformFollowsRefineCall == [][IsUniformStep]_vars

\* Adaptive steps on a refiner that was refined uniformly before.
C23_Witness ==
    /\ op = "RefineAdaptive"
    /\ err = NoError
    /\ uniformOptions.refinementLevel >= 1
    /\ Len(refinements) >= 1
    /\ ~isUniform

-----------------------------------------------------------------------------
(* _maxLevel and the number of refinement steps *)

\* C24: after every completed operation, Unrefine included, maxLevel is the
\* number of refinement steps the refiner holds (0 after Unrefine).
C24_MaxLevelIsStepCount == maxLevel = Len(refinements)

-----------------------------------------------------------------------------
(* Hole faces and the sparse selector *)

\* C25 as stated: in no pass of RefineAdaptive is a face flagged as a hole
\* handed to the selector, a hole face that shares a vertex with an
\* irregular depth-0 face included.
C25_NoHoleFaceSelected ==
    \A k \in 1..Len(passes) :
        \A j \in 1..Len(passes[k].calls) :
            ~isFaceHole(levels[k], passes[k].calls[j])

\* C25: a face flagged as a hole is handed to the selector only in the
\* depth-0 pass under a scheme of nonzero neighbourhood size, as a face
\* incident to a vertex of an irregular face that is not a hole; its own
\* turn in the face loop never selects it, whatever its size and tags.
C25_HoleFaceSelectedOnlyInOneRing ==
    \A k \in 1..Len(passes) :
        \A j \in 1..Len(passes[k].calls) :
            isFaceHole(levels[k], passes[k].calls[j])
                => /\ k = 1
                   /\ GetLocalNeighborhoodSize(subdivType) # 0
                   /\ \E face \in IrregularFaces(levels[1]) :
                          passes[k].calls[j] \in FaceAndNeighbours(levels[1], face)

\* A depth-0 pass that selected the hole next to the pentagon and left out
\* the hole that has a feature of the mask and no vertex of the pentagon.
C25_Witness ==
    /\ op = "RefineAdaptive"
    /\ err = NoError
    /\ Len(passes) >= 1
    /\ \E near, far \in 1..getNumFaces(levels[1]) :
           /\ isFaceHole(levels[1], near)
           /\ near \in FacesSelected(1)
           /\ isFaceHole(levels[1], far)
           /\ doesFaceHaveFeatures(levels[1], far, passes[1].mask)
           /\ far \notin FacesSelected(1)

-----------------------------------------------------------------------------
(* doesFaceHaveFeatures and the flags of the mask *)

\* C26: a face that doesFaceHaveFeatures selects under a mask is selected
\* under every mask that has at least the flags of that mask, whatever the
\* face's tags, depth and single-crease result; so a face selected under a
\* reduced mask is selected under the full mask it was reduced from.
C26_ClassificationMonotoneInMask ==
    ( /\ probe.fn = "doesFaceHaveFeatures twice"
      /\ probe.returned
      /\ \/ MaskWithin(probe.featureMask, probe.wider)
         \/ \E options \in MaskOptionsSet :
                probe.featureMask = ReduceFeatures(probe.wider, options)
      /\ probe.result )
        => probe.resultWider

\* A face selected under a reduced mask and under the full mask, which has
\* more flags; and the classification is not the same under the two masks
\* for every face: the witness face is one of those the reduced mask keeps.
C26_Witness ==
    /\ probe.fn = "doesFaceHaveFeatures twice"
    /\ probe.returned
    /\ probe.featureMask # probe.wider
    /\ ~IsEmpty(probe.featureMask)
    /\ \E options \in MaskOptionsSet, schemeType \in SchemeTypes :
           /\ probe.wider = FeatureMask(options, schemeType)
           /\ probe.featureMask = ReduceFeatures(probe.wider, options)
    /\ probe.result
    /\ probe.resultWider

=============================================================================
